---------------------------- MODULE Spec2Model ----------------------------
(***************************************************************************)
(* The data pipeline of the Data Weaver dashboard: DataNormalizer turns a  *)
(* raw API payload into a canonical time series (collect, sort, limit,     *)
(* metadata, optional min-max normalization) and aligns two series by      *)
(* timestamp; InsightEngine derives trend, spikes and Pearson correlation. *)
(*                                                                         *)
(* JavaScript values are tagged records [t |-> <typeof-like tag>, ...].    *)
(* Finite numbers are exact decimal-scaled rationals n/d * 10^e (IEEE-754  *)
(* rounding is not modelled); NaN and +-Infinity are separate kinds.       *)
(***************************************************************************)
EXTENDS Integers, Sequences, FiniteSets, TLC

(***************************************************************************)
(* JavaScript values                                                       *)
(***************************************************************************)
Undefined == [t |-> "undefined"]
Null == [t |-> "null"]
Bool(b) == [t |-> "boolean", b |-> b]
Str(s) == [t |-> "string", s |-> s]
Arr(elems) == [t |-> "array", elems |-> elems]
Obj(props) == [t |-> "object", props |-> props]

NaN == [t |-> "number", k |-> "nan", n |-> 0, d |-> 1, e |-> 0]
Infinity == [t |-> "number", k |-> "inf", n |-> 1, d |-> 1, e |-> 0]
NegInfinity == [t |-> "number", k |-> "inf", n |-> -1, d |-> 1, e |-> 0]

AbsInt(i) == IF i < 0 THEN -i ELSE i
SignInt(i) == IF i < 0 THEN -1 ELSE IF i > 0 THEN 1 ELSE 0

RECURSIVE GCD(_, _)
GCD(a, b) == IF b = 0 THEN a ELSE GCD(b, a % b)

RECURSIVE Pow10(_)
Pow10(k) == IF k = 0 THEN 1 ELSE 10 * Pow10(k - 1)

\* reduce n/d to lowest terms with d > 0
Reduce(n, d) ==
  LET g == GCD(AbsInt(n), AbsInt(d))
      s == IF d < 0 THEN -1 ELSE 1
  IN  <<(s * n) \div g, (s * d) \div g>>

\* move a positive exponent into the numerator while d shares a factor with 10
RECURSIVE Absorb(_, _, _)
Absorb(n, d, e) ==
  IF e > 0 /\ (d % 2 = 0 \/ d % 5 = 0)
  THEN LET r == Reduce(n * 10, d) IN Absorb(r[1], r[2], e - 1)
  ELSE <<n, d, e>>

\* strip trailing decimal zeros of the numerator into the exponent
RECURSIVE Strip(_, _, _)
Strip(n, d, e) ==
  IF n # 0 /\ n % 10 = 0 THEN Strip(n \div 10, d, e + 1) ELSE <<n, d, e>>

Zero == [t |-> "number", k |-> "fin", n |-> 0, d |-> 1, e |-> 0]
One == [t |-> "number", k |-> "fin", n |-> 1, d |-> 1, e |-> 0]

FinRecord(s) == [t |-> "number", k |-> "fin", n |-> s[1], d |-> s[2], e |-> s[3]]

Stripped(a) == FinRecord(Strip(a[1], a[2], a[3]))

\* the canonical form of r[1]/r[2] * 10^e for a reduced fraction r and e >= 0
Canonical(r, e) == IF r[1] = 0 THEN Zero ELSE Stripped(Absorb(r[1], r[2], e))

\* the finite number n/d * 10^e in canonical form (d # 0, e any integer)
Fin(n, d, e) ==
  Canonical(Reduce(n, IF e < 0 THEN d * Pow10(-e) ELSE d), IF e < 0 THEN 0 ELSE e)

Num(i) == Fin(i, 1, 0)

IsNumber(v) == v.t = "number"
IsFin(v) == v.t = "number" /\ v.k = "fin"
IsNaN(v) == v.t = "number" /\ v.k = "nan"
IsInf(v) == v.t = "number" /\ v.k = "inf"
Sign(v) == SignInt(v.n)

\* the sign of L * 10^k - R for L, R > 0, k >= 0, without overflowing
RECURSIVE ScaledCmp(_, _, _)
ScaledCmp(L, k, R) ==
  IF k = 0 THEN SignInt(L - R)
  ELSE IF L > R \div 10 THEN 1
  ELSE ScaledCmp(L * 10, k - 1, R)

\* the sign of p/q - a/b for p, a >= 0 and q, b > 0, by the integer parts and
\* then the reciprocals of the fractional parts, so that no product is formed
RECURSIVE FracCmp(_, _, _, _)
FracCmp(p, q, a, b) ==
  IF p \div q # a \div b THEN SignInt((p \div q) - (a \div b))
  ELSE IF p % q = 0 \/ a % b = 0 THEN SignInt(SignInt(p % q) - SignInt(a % b))
  ELSE FracCmp(b, a % b, q, p % q)

\* the sign of a - b for finite numbers a, b
CmpFin(a, b) ==
  IF Sign(a) # Sign(b) THEN SignInt(Sign(a) - Sign(b))
  ELSE IF Sign(a) = 0 THEN 0
  ELSE IF a.e = b.e THEN Sign(a) * FracCmp(AbsInt(a.n), a.d, AbsInt(b.n), b.d)
  ELSE LET L == AbsInt(a.n) * b.d
           R == AbsInt(b.n) * a.d
           m == IF a.e >= b.e THEN ScaledCmp(L, a.e - b.e, R)
                ELSE -ScaledCmp(R, b.e - a.e, L)
       IN  Sign(a) * m

MinInt(i, j) == IF i <= j THEN i ELSE j

\* a + b and -a for finite numbers
AddFin(a, b) ==
  LET m == MinInt(a.e, b.e)
      na == a.n * Pow10(a.e - m)
      nb == b.n * Pow10(b.e - m)
  IN  Fin(na * b.d + nb * a.d, a.d * b.d, m)

NumNeg(a) == [a EXCEPT !.n = -a.n]

\* IEEE-754 addition, multiplication, division and ordering on numbers
NumAdd(a, b) ==
  IF IsNaN(a) \/ IsNaN(b) THEN NaN
  ELSE IF IsInf(a) THEN (IF IsInf(b) /\ b.n # a.n THEN NaN ELSE a)
  ELSE IF IsInf(b) THEN b
  ELSE AddFin(a, b)

NumSub(a, b) == NumAdd(a, NumNeg(b))

NumMul(a, b) ==
  IF IsNaN(a) \/ IsNaN(b) THEN NaN
  ELSE IF IsInf(a) \/ IsInf(b)
       THEN (IF Sign(a) * Sign(b) = 0 THEN NaN
             ELSE IF Sign(a) * Sign(b) > 0 THEN Infinity ELSE NegInfinity)
  ELSE Fin(a.n * b.n, a.d * b.d, a.e + b.e)

\* (the sign of a zero is not modelled: x / 0 takes the sign of x)
NumDiv(a, b) ==
  IF IsNaN(a) \/ IsNaN(b) THEN NaN
  ELSE IF IsInf(a)
       THEN (IF IsInf(b) THEN NaN
             ELSE IF Sign(a) * Sign(b) < 0 THEN NegInfinity ELSE Infinity)
  ELSE IF IsInf(b) THEN Zero
  ELSE IF b.n = 0
       THEN (IF a.n = 0 THEN NaN ELSE IF a.n > 0 THEN Infinity ELSE NegInfinity)
  ELSE Fin(a.n * b.d, a.d * b.n, a.e - b.e)

\* the sign of a - b for numbers that are not NaN
NumCmp(a, b) ==
  IF IsInf(a) THEN (IF IsInf(b) THEN SignInt(a.n - b.n) ELSE a.n)
  ELSE IF IsInf(b) THEN -b.n
  ELSE CmpFin(a, b)

NumLess(a, b) == ~IsNaN(a) /\ ~IsNaN(b) /\ NumCmp(a, b) < 0
NumLessEq(a, b) == ~IsNaN(a) /\ ~IsNaN(b) /\ NumCmp(a, b) <= 0
NumAbs(a) == [a EXCEPT !.n = AbsInt(a.n)]

\* ToNumber. The only strings of the model are "" and non-numeric text.
RECURSIVE ToNumber(_)
ToNumber(v) ==
  CASE v.t = "number" -> v
    [] v.t = "undefined" -> NaN
    [] v.t = "null" -> Zero
    [] v.t = "boolean" -> IF v.b THEN One ELSE Zero
    [] v.t = "string" -> IF v.s = "" THEN Zero ELSE NaN
    [] v.t = "array" -> IF Len(v.elems) = 0 THEN Zero
                        ELSE IF Len(v.elems) = 1 /\ v.elems[1].t \in {"number", "string"}
                             THEN ToNumber(v.elems[1])
                        ELSE NaN
    [] OTHER -> NaN

\* ToBoolean
Truthy(v) ==
  CASE v.t \in {"undefined", "null"} -> FALSE
    [] v.t = "boolean" -> v.b
    [] v.t = "number" -> ~(IsNaN(v) \/ (IsFin(v) /\ v.n = 0))
    [] v.t = "string" -> v.s # ""
    [] OTHER -> TRUE      \* objects and arrays

TypeOf(v) ==
  CASE v.t \in {"null", "array", "dict", "series", "point"} -> "object"
    [] OTHER -> v.t

IsArray(v) == v.t = "array"

\* the operators -, *, /, <, <=, > applied to arbitrary values (operands coerced)
JSSub(a, b) == NumSub(ToNumber(a), ToNumber(b))
JSMul(a, b) == NumMul(ToNumber(a), ToNumber(b))
JSDiv(a, b) == NumDiv(ToNumber(a), ToNumber(b))
JSLess(a, b) == NumLess(ToNumber(a), ToNumber(b))
JSLessEq(a, b) == NumLessEq(ToNumber(a), ToNumber(b))
JSGreater(a, b) == JSLess(b, a)

\* a + b: string concatenation as soon as one operand is a string. The text of
\* the result is not kept apart from its being non-numeric.
JSAdd(a, b) ==
  IF a.t = "string" \/ b.t = "string" THEN Str("concatenated")
  ELSE NumAdd(ToNumber(a), ToNumber(b))

\* obj[key]: undefined for a property the value does not have
Get(v, key) ==
  IF v.t = "object" /\ key \in DOMAIN v.props THEN v.props[key] ELSE Undefined

(***************************************************************************)
(* DataNormalizer                                                          *)
(***************************************************************************)
\* a thrown TypeError (a property read on null or undefined, a call of a
\* value that is not a function)
Throw == [t |-> "throw", error |-> "TypeError"]

\* A data point. Its label (new Date(timestamp).toLocaleString()) is a
\* locale-dependent text that nothing reads; it is not modelled.
DataPoint(timestamp, value) ==
  [t |-> "point", timestamp |-> timestamp, value |-> value, originalValue |-> value]

TimeSeries(sourceName, dataPoints, metadata) ==
  [t |-> "series", sourceName |-> sourceName, dataPoints |-> dataPoints,
   metadata |-> metadata]

\* the sequence f with every element evaluated (TLC applies a function
\* expression lazily, element by element, unless it is made a tuple)
Materialize(f) == SubSeq(f, 1, Len(f))

SeqMap(Op(_), s) == Materialize([i \in 1..Len(s) |-> Op(s[i])])

\* the elements of s that Keep holds of, in their order
SeqFilter(Keep(_), s) ==
  LET kept == {i \in 1..Len(s) : Keep(s[i])}
      pos == Materialize([i \in 1..Len(s) |-> Cardinality({j \in kept : j <= i})])
  IN  Materialize([k \in 1..Cardinality(kept) |->
                     s[CHOOSE i \in kept : pos[i] = k]])

\* Math.min(...values) and Math.max(...values): NaN as soon as one argument
\* converts to NaN
MathMin(values) ==
  LET nums == SeqMap(ToNumber, values)
  IN  IF Len(values) = 0 THEN Infinity
      ELSE IF \E i \in 1..Len(nums) : IsNaN(nums[i]) THEN NaN
      ELSE nums[CHOOSE i \in 1..Len(nums) :
                  \A j \in 1..Len(nums) : NumCmp(nums[i], nums[j]) <= 0]

MathMax(values) ==
  LET nums == SeqMap(ToNumber, values)
  IN  IF Len(values) = 0 THEN NegInfinity
      ELSE IF \E i \in 1..Len(nums) : IsNaN(nums[i]) THEN NaN
      ELSE nums[CHOOSE i \in 1..Len(nums) :
                  \A j \in 1..Len(nums) : NumCmp(nums[i], nums[j]) >= 0]

\* values.slice(lo - 1, hi).reduce((acc, val) => acc + val, 0), summed as a
\* balanced tree: the same value as the left fold, since the addition here is
\* exact and a string or NaN operand absorbs the sum whatever the order
RECURSIVE SumRange(_, _, _)
SumRange(values, lo, hi) ==
  IF lo > hi THEN Zero
  ELSE IF lo = hi THEN JSAdd(Zero, values[lo])
  ELSE LET mid == (lo + hi) \div 2
       IN  JSAdd(SumRange(values, lo, mid), SumRange(values, mid + 1, hi))

Sum(values) == SumRange(values, 1, Len(values))

calculateMetadata(values, unit) ==
  IF Len(values) = 0
  THEN [unit |-> unit, min |-> Zero, max |-> Zero, mean |-> Zero, count |-> 0]
  ELSE [unit |-> unit,
        min |-> MathMin(values),
        max |-> MathMax(values),
        mean |-> JSDiv(Sum(values), Num(Len(values))),
        count |-> Len(values)]

createEmptyTimeSeries(sourceName, unit) ==
  TimeSeries(sourceName, <<>>,
             [unit |-> unit, min |-> Zero, max |-> Zero, mean |-> Zero, count |-> 0])

MaxDataPoints == 100

\* limitDataPoints: the array as dataPoints.splice(0, length - maxPoints) leaves it
limitDataPoints(dataPoints, maxPoints) ==
  IF Len(dataPoints) > maxPoints
  THEN SubSeq(dataPoints, Len(dataPoints) - maxPoints + 1, Len(dataPoints))
  ELSE dataPoints

\* (a, b) => a.timestamp - b.timestamp as Array.prototype.sort reads it: the
\* sign of the difference, NaN counting as +0
SortCompare(a, b) ==
  LET x == ToNumber(a.timestamp)
      y == ToNumber(b.timestamp)
  IN  IF IsNaN(x) \/ IsNaN(y) THEN 0
      ELSE IF IsInf(x) /\ IsInf(y) /\ x.n = y.n THEN 0
      ELSE NumCmp(x, y)

\* the stable sort: an element goes behind every element that compares smaller
\* and behind every earlier element that compares equal
StableSort(s) ==
  LET rank == Materialize([i \in 1..Len(s) |->
                 Cardinality({j \in 1..Len(s) :
                    \/ SortCompare(s[j], s[i]) < 0
                    \/ (SortCompare(s[j], s[i]) = 0 /\ j <= i)})])
  IN  Materialize([k \in 1..Len(s) |-> s[CHOOSE i \in 1..Len(s) : rank[i] = k]])

\* ECMA-262 23.1.3.30: the comparator is a consistent comparison function for
\* the elements (each of =, <, > is transitive)
ConsistentComparator(s) ==
  \/ \A i \in 1..Len(s) : IsFin(ToNumber(s[i].timestamp))
  \/ \A i, j, k \in 1..Len(s) :
       /\ (SortCompare(s[i], s[j]) = 0 /\ SortCompare(s[j], s[k]) = 0)
            => SortCompare(s[i], s[k]) = 0
       /\ (SortCompare(s[i], s[j]) < 0 /\ SortCompare(s[j], s[k]) < 0)
            => SortCompare(s[i], s[k]) < 0
       /\ (SortCompare(s[i], s[j]) > 0 /\ SortCompare(s[j], s[k]) > 0)
            => SortCompare(s[i], s[k]) > 0

Reorderings(s) ==
  {[i \in 1..Len(s) |-> s[f[i]]] :
     f \in {g \in [1..Len(s) -> 1..Len(s)] : \A i, j \in 1..Len(s) : g[i] = g[j] => i = j}}

\* dataPoints.sort((a, b) => a.timestamp - b.timestamp): the stable sort when
\* the comparator is consistent; otherwise the order is implementation-defined
\* and any permutation may come out
SortOutcomes(s) ==
  IF ConsistentComparator(s) THEN {StableSort(s)} ELSE Reorderings(s)

\* a normalization that forgets to subtract the minimum
NormalizePointNoMin(dp, min, range) ==
  [dp EXCEPT !.value = JSDiv(dp.originalValue, range)]

\* dataPoints.forEach(dp => dp.value = (dp.originalValue - min) / range)
NormalizePoint(dp, min, range) ==
  [dp EXCEPT !.value = JSDiv(JSSub(dp.originalValue, min), range)]

\* The tail every canonicalizer ends with, from the sorted array on: limit,
\* metadata, optional normalization, the returned series.
Values(dataPoints) == Materialize([i \in 1..Len(dataPoints) |-> dataPoints[i].value])

\* a normalization step without the range > 0 guard
NormalizedUnguarded(dataPoints, normalizeOption, min, range) ==
  IF Truthy(normalizeOption) /\ Len(dataPoints) > 0
  THEN Materialize([i \in 1..Len(dataPoints) |-> NormalizePoint(dataPoints[i], min, range)])
  ELSE dataPoints

\* the normalization step: it rewrites the values when it is asked for, there
\* are points and range = max - min is positive
Normalized(dataPoints, normalizeOption, min, range) ==
  IF Truthy(normalizeOption) /\ Len(dataPoints) > 0 /\ NumLess(Zero, range)
  THEN Materialize([i \in 1..Len(dataPoints) |-> NormalizePoint(dataPoints[i], min, range)])
  ELSE dataPoints

WithMetadata(dataPoints, metadata, normalizeOption, sourceName) ==
  TimeSeries(sourceName,
             Normalized(dataPoints, normalizeOption, metadata.min,
                        NumSub(metadata.max, metadata.min)),
             metadata)

Limited(dataPoints, normalizeOption, sourceName, unit) ==
  WithMetadata(dataPoints, calculateMetadata(Values(dataPoints), unit),
               normalizeOption, sourceName)

Finish(sorted, normalizeOption, sourceName, unit) ==
  Limited(limitDataPoints(sorted, MaxDataPoints), normalizeOption, sourceName, unit)

\* sort, then Finish; transformConfig.normalize throws on a null configuration
\* (an undefined one was replaced by the default {})
SortAndFinish(collected, transformConfig, sourceName, unit) ==
  IF transformConfig.t = "null" THEN {Throw}
  ELSE {Finish(sorted, Get(transformConfig, "normalize"), sourceName, unit) :
          sorted \in SortOutcomes(collected)}

\* a parameter's default value replaces undefined only
DefaultTo(arg, default) == IF arg.t = "undefined" THEN default ELSE arg

EmptyObject == Obj([normalize |-> Undefined])

AirQualityKeep(item) ==
  ~(\/ ~Truthy(item)
    \/ ~Truthy(Get(item, "dt"))
    \/ ~Truthy(Get(item, "main"))
    \/ TypeOf(Get(Get(item, "main"), "aqi")) = "undefined")

AirQualityPoint(item) ==
  DataPoint(JSMul(Get(item, "dt"), Num(1000)), Get(Get(item, "main"), "aqi"))

AirQualityCollect(list) == SeqMap(AirQualityPoint, SeqFilter(AirQualityKeep, list))

\* the set of results normalizeAirQuality(rawData, transformConfig) can return
normalizeAirQuality(rawData, transformConfigArg) ==
  LET transformConfig == DefaultTo(transformConfigArg, EmptyObject)
  IN  IF ~Truthy(rawData) \/ ~Truthy(Get(rawData, "list"))
         \/ ~IsArray(Get(rawData, "list"))
      THEN {createEmptyTimeSeries(Str("Air Quality"), Str("AQI"))}
      ELSE SortAndFinish(AirQualityCollect(Get(rawData, "list").elems),
                         transformConfig, Str("Air Quality"), Str("AQI"))

\* array[index] (index from 0): undefined beyond the end
At(array, index) ==
  IF index >= 0 /\ index < Len(array.elems) THEN array.elems[index + 1] ELSE Undefined

CryptoKeep(pricePoint) ==
  /\ ~(~IsArray(pricePoint) \/ Len(pricePoint.elems) < 2)
  /\ ~(TypeOf(At(pricePoint, 0)) # "number" \/ TypeOf(At(pricePoint, 1)) # "number")

CryptoPoint(pricePoint) == DataPoint(At(pricePoint, 0), At(pricePoint, 1))

CryptoCollect(prices) == SeqMap(CryptoPoint, SeqFilter(CryptoKeep, prices))

\* the set of results normalizeCrypto(rawData, transformConfig) can return
normalizeCrypto(rawData, transformConfigArg) ==
  LET transformConfig == DefaultTo(transformConfigArg, EmptyObject)
  IN  IF ~Truthy(rawData) \/ ~Truthy(Get(rawData, "prices"))
         \/ ~IsArray(Get(rawData, "prices"))
      THEN {createEmptyTimeSeries(Str("Cryptocurrency"), Str("USD"))}
      ELSE SortAndFinish(CryptoCollect(Get(rawData, "prices").elems),
                         transformConfig, Str("Cryptocurrency"), Str("USD"))

\* new Date(text).getTime() for the date and time texts of the model, read as
\* UTC; any other text is no date
DateParse(text) ==
  CASE text = "1970-01-01T01:00" -> Num(3600000)
    [] text = "1970-01-01T02:00" -> Num(7200000)
    [] text = "1970-01-01T03:00" -> Num(10800000)
    [] text = "1970-01-01T12:00:00Z" -> Num(43200000)
    [] text = "1970-01-02T12:00:00Z" -> Num(129600000)
    [] text = "1970-01-03T12:00:00Z" -> Num(216000000)
    [] OTHER -> NaN

\* new Date(value).getTime(): a number is taken as the time value itself
DateGetTime(value) ==
  CASE value.t = "string" -> DateParse(value.s)
    [] value.t = "number" -> value
    [] value.t = "null" -> Zero
    [] value.t = "boolean" -> ToNumber(value)
    [] OTHER -> NaN

WeatherKeep(pair) ==
  ~(~Truthy(pair[1]) \/ pair[2] = Null \/ pair[2] = Undefined)

WeatherPoint(pair) == DataPoint(DateGetTime(pair[1]), pair[2])

\* the loop over i < times.length && i < temperatures.length
WeatherCollect(times, temperatures) ==
  LET n == MinInt(Len(times), Len(temperatures))
      pairs == Materialize([i \in 1..n |-> <<times[i], temperatures[i]>>])
  IN  SeqMap(WeatherPoint, SeqFilter(WeatherKeep, pairs))

\* the set of results normalizeWeather(rawData, transformConfig) can return
normalizeWeather(rawData, transformConfigArg) ==
  LET transformConfig == DefaultTo(transformConfigArg, EmptyObject)
      hourly == Get(rawData, "hourly")
  IN  IF ~Truthy(rawData) \/ ~Truthy(hourly) \/ ~IsArray(Get(hourly, "time"))
         \/ ~IsArray(Get(hourly, "temperature_2m"))
      THEN {createEmptyTimeSeries(Str("Weather"), Str("°C"))}
      ELSE SortAndFinish(WeatherCollect(Get(hourly, "time").elems,
                                        Get(hourly, "temperature_2m").elems),
                         transformConfig, Str("Weather"), Str("°C"))

\* An object whose own properties are enumerated (Object.entries) is held as
\* the sequence of its <<key, value>> entries in insertion order.
Dict(entries) == [t |-> "dict", entries |-> entries]

\* Object.entries(value): nothing for a number or a boolean
ObjectEntries(value) == IF value.t = "dict" THEN value.entries ELSE <<>>

CurrencyKeep(entry) ==
  ~(~Truthy(entry[2]) \/ TypeOf(Get(entry[2], "USD")) = "undefined")

\* the text dateStr + 'T12:00:00Z'
NoonOf(dateStr) ==
  CASE dateStr = "1970-01-01" -> "1970-01-01T12:00:00Z"
    [] dateStr = "1970-01-02" -> "1970-01-02T12:00:00Z"
    [] dateStr = "1970-01-03" -> "1970-01-03T12:00:00Z"
    [] OTHER -> "not a date"

CurrencyPoint(entry) == DataPoint(DateParse(NoonOf(entry[1])), Get(entry[2], "USD"))

CurrencyCollect(rates) ==
  SeqMap(CurrencyPoint, SeqFilter(CurrencyKeep, ObjectEntries(rates)))

\* the early return when no entry was kept, else the common tail
CurrencyFinish(dataPoints, transformConfig) ==
  IF Len(dataPoints) = 0
  THEN {createEmptyTimeSeries(Str("Currency"), Str("USD"))}
  ELSE SortAndFinish(dataPoints, transformConfig, Str("Currency"), Str("USD"))

\* the set of results normalizeCurrency(rawData, transformConfig) can return
normalizeCurrency(rawData, transformConfigArg) ==
  LET transformConfig == DefaultTo(transformConfigArg, EmptyObject)
  IN  IF ~Truthy(rawData) \/ ~Truthy(Get(rawData, "rates"))
      THEN {createEmptyTimeSeries(Str("Currency"), Str("USD"))}
      ELSE CurrencyFinish(CurrencyCollect(Get(rawData, "rates")), transformConfig)

\* keyPath.includes('[]') for the key paths of the model
IncludesBrackets(keyPath) == keyPath \in {"[][0]", "[][1]", "row[]"}

\* keyPath.split('[]')
SplitBrackets(keyPath) ==
  CASE keyPath = "[][0]" -> <<"", "[0]">>
    [] keyPath = "[][1]" -> <<"", "[1]">>
    [] keyPath = "row[]" -> <<"row", "">>
    [] OTHER -> <<keyPath>>

\* parseInt(part.replace(/[\[\]]/g, ''), 10); -1 stands for NaN
ParseIndex(part) ==
  CASE part = "[0]" -> 0
    [] part = "[1]" -> 1
    [] OTHER -> -1

\* keyPath.split('.')
SplitDots(keyPath) ==
  CASE keyPath = "value.v" -> <<"value", "v">>
    [] OTHER -> <<keyPath>>

\* the loop over the keys of a dot path, from the key at position i on
RECURSIVE Walk(_, _, _)
Walk(current, keys, i) ==
  IF i > Len(keys) THEN (IF current # Undefined THEN current ELSE Null)
  ELSE IF current = Null \/ current = Undefined THEN Null
  ELSE Walk(Get(current, keys[i]), keys, i + 1)

\* extractValue(obj, keyPath): the value found, null, or a thrown TypeError
\* when keyPath has no includes or no split method
extractValue(obj, keyPath) ==
  IF ~Truthy(obj) \/ ~Truthy(keyPath) THEN Null
  ELSE IF keyPath.t # "string" THEN Throw
  ELSE IF IncludesBrackets(keyPath.s)
       THEN LET parts == SplitBrackets(keyPath.s)
            IN  IF Len(parts) = 2 /\ parts[1] = "" /\ IsArray(obj)
                THEN LET index == ParseIndex(parts[2])
                     IN  IF index # -1 /\ Len(obj.elems) > index
                         THEN At(obj, index) ELSE Null
                ELSE Null
  ELSE Walk(obj, SplitDots(keyPath.s), 1)

\* a || b
Or(a, b) == IF Truthy(a) THEN a ELSE b

\* 10000000000, the bound below which a numeric timestamp counts as seconds
SecondsBound == Fin(1, 1, 10)

\* a conversion that takes the bound itself for seconds too
TimestampMsUpToBound(timestamp) ==
  IF TypeOf(timestamp) = "number" /\ NumLessEq(timestamp, SecondsBound)
  THEN NumMul(timestamp, Num(1000))
  ELSE timestamp

\* the timestamp in milliseconds as createTimeSeries takes it
TimestampMs(timestamp) ==
  IF TypeOf(timestamp) = "number" /\ NumLess(timestamp, SecondsBound)
  THEN NumMul(timestamp, Num(1000))
  ELSE timestamp

GenericKeep(item, valueKey, timestampKey) ==
  /\ Truthy(item)
  /\ ~(extractValue(item, valueKey) = Null \/ extractValue(item, timestampKey) = Null)

GenericPoint(item, valueKey, timestampKey) ==
  DataPoint(TimestampMs(extractValue(item, timestampKey)), extractValue(item, valueKey))

\* an item whose extraction throws ends the call
GenericThrows(data, valueKey, timestampKey) ==
  \E i \in 1..Len(data) :
    /\ Truthy(data[i])
    /\ Throw \in {extractValue(data[i], valueKey), extractValue(data[i], timestampKey)}

GenericCollect(data, valueKey, timestampKey) ==
  LET kept == {i \in 1..Len(data) : GenericKeep(data[i], valueKey, timestampKey)}
      pos == Materialize([i \in 1..Len(data) |-> Cardinality({j \in kept : j <= i})])
  IN  Materialize([k \in 1..Cardinality(kept) |->
        GenericPoint(data[CHOOSE i \in kept : pos[i] = k], valueKey, timestampKey)])

\* the set of results createTimeSeries(data, valueKey, timestampKey, options)
\* can return; options.sourceName throws on null options
createTimeSeries(data, valueKey, timestampKey, optionsArg) ==
  LET options == DefaultTo(optionsArg, EmptyObject)
  IN  IF options.t = "null" THEN {Throw}
      ELSE IF ~IsArray(data) \/ Len(data.elems) = 0
      THEN {createEmptyTimeSeries(Or(Get(options, "sourceName"), Str("Unknown")),
                                  Or(Get(options, "unit"), Str("")))}
      ELSE IF GenericThrows(data.elems, valueKey, timestampKey) THEN {Throw}
      ELSE {Finish(sorted, Get(options, "normalize"),
                   Or(Get(options, "sourceName"), Str("Unknown")),
                   Or(Get(options, "unit"), Str(""))) :
              sorted \in SortOutcomes(GenericCollect(data.elems, valueKey, timestampKey))}

DefaultToleranceMs == Num(3600000)

\* Math.abs(point1.timestamp - point2.timestamp)
TimeDiff(point1, point2) == NumAbs(JSSub(point1.timestamp, point2.timestamp))

\* the inner loop over points2: the index of closestPoint in points2 (0 for
\* null) once the points up to index j are seen
RECURSIVE ClosestUpTo(_, _, _, _)
ClosestUpTo(point1, points2, toleranceMs, j) ==
  IF j = 0 THEN 0
  ELSE LET before == ClosestUpTo(point1, points2, toleranceMs, j - 1)
           minDiff == IF before = 0 THEN Infinity ELSE TimeDiff(point1, points2[before])
           diff == TimeDiff(point1, points2[j])
       IN  IF NumLess(diff, minDiff) /\ JSLessEq(diff, toleranceMs) THEN j ELSE before

\* a search that keeps the last of the points at the least distance
RECURSIVE LastClosestUpTo(_, _, _, _)
LastClosestUpTo(point1, points2, toleranceMs, j) ==
  IF j = 0 THEN 0
  ELSE LET before == LastClosestUpTo(point1, points2, toleranceMs, j - 1)
           minDiff == IF before = 0 THEN Infinity ELSE TimeDiff(point1, points2[before])
           diff == TimeDiff(point1, points2[j])
       IN  IF NumLessEq(diff, minDiff) /\ JSLessEq(diff, toleranceMs) THEN j ELSE before

LastClosest(point1, points2, toleranceMs) ==
  LastClosestUpTo(point1, points2, toleranceMs, Len(points2))

\* a search for the closest point that ignores the tolerance
ClosestAnywhere(point1, points2, toleranceMs) ==
  ClosestUpTo(point1, points2, Infinity, Len(points2))

Closest(point1, points2, toleranceMs) ==
  ClosestUpTo(point1, points2, toleranceMs, Len(points2))

AlignedPair(point1, closestPoint) ==
  [timestamp |-> point1.timestamp,
   value1 |-> point1.value,
   value2 |-> closestPoint.value,
   originalValue1 |-> point1.originalValue,
   originalValue2 |-> closestPoint.originalValue,
   timeDiff |-> TimeDiff(point1, closestPoint)]

\* the pairs pushed, given the index closest[i] in points2 of the closest
\* point of points1[i] (0 when there is none)
PairsOf(points1, points2, closest) ==
  LET kept == {i \in 1..Len(points1) : closest[i] # 0}
      pos == Materialize([i \in 1..Len(points1) |-> Cardinality({j \in kept : j <= i})])
  IN  Materialize([k \in 1..Cardinality(kept) |->
        LET i == CHOOSE i \in kept : pos[i] = k
        IN  AlignedPair(points1[i], points2[closest[i]])])

AlignPairs(points1, points2, toleranceMs) ==
  PairsOf(points1, points2,
          Materialize([i \in 1..Len(points1) |->
                         Closest(points1[i], points2, toleranceMs)]))

\* series.dataPoints is missing or empty
NoPoints(series) ==
  \/ ~Truthy(series)
  \/ series.t # "series"
  \/ Len(series.dataPoints) = 0

alignTimeSeriesByTimestamp(series1, series2, toleranceArg) ==
  LET toleranceMs == DefaultTo(toleranceArg, DefaultToleranceMs)
  IN  IF NoPoints(series1) \/ NoPoints(series2)
      THEN [t |-> "alignment",
            series1 |-> Or(series1, createEmptyTimeSeries(Str("Series 1"), Str(""))),
            series2 |-> Or(series2, createEmptyTimeSeries(Str("Series 2"), Str(""))),
            alignedPairs |-> <<>>]
      ELSE [t |-> "alignment",
            series1 |-> series1,
            series2 |-> series2,
            alignedPairs |-> AlignPairs(series1.dataPoints, series2.dataPoints,
                                        toleranceMs)]

(***************************************************************************)
(* InsightEngine                                                           *)
(***************************************************************************)
\* alignDataPoints: the pairs of the aligner at the fixed tolerance of one
\* hour, each reduced to timestamp, value1 and value2
ShortPair(pair) ==
  [timestamp |-> pair.timestamp, value1 |-> pair.value1, value2 |-> pair.value2]

alignDataPoints(dataPoints1, dataPoints2) ==
  SeqMap(ShortPair, AlignPairs(dataPoints1, dataPoints2, Num(3600000)))

NoCorrelation ==
  [t |-> "correlation", coefficient |-> Zero, strength |-> "none", direction |-> "none"]

\* numerator / Math.sqrt(radicand) compared with the rational q, for a finite
\* numerator and a positive radicand: -1, 0 or 1.  The root is never taken;
\* the comparison is made on the squares.
RootCmp(numerator, radicand, q) ==
  LET squares == NumCmp(NumDiv(NumMul(numerator, numerator), radicand), NumMul(q, q))
  IN  IF Sign(numerator) # Sign(q) THEN (IF Sign(numerator) < Sign(q) THEN -1 ELSE 1)
      ELSE IF Sign(q) = 0 THEN 0
      ELSE IF Sign(q) > 0 THEN squares
      ELSE 0 - squares

\* Math.round(1000 * numerator / Math.sqrt(radicand)): the largest integer k
\* of lo..hi with k - 1/2 <= 1000 * numerator / Math.sqrt(radicand)
RECURSIVE RoundSearch(_, _, _, _)
RoundSearch(numerator, radicand, lo, hi) ==
  IF lo >= hi THEN lo
  ELSE LET mid == (lo + hi + 1) \div 2
       IN  IF RootCmp(numerator, radicand, NumDiv(Num(2 * mid - 1), Num(2000))) >= 0
           THEN RoundSearch(numerator, radicand, mid, hi)
           ELSE RoundSearch(numerator, radicand, lo, mid - 1)

\* Math.round(coefficient * 1000) / 1000
Round3(numerator, radicand) ==
  NumDiv(Num(RoundSearch(numerator, radicand, -1000, 1000)), Num(1000))

\* bands that are open at their lower end
StrengthAbove(numerator, radicand) ==
  LET absNumerator == NumAbs(numerator)
  IN  IF RootCmp(absNumerator, radicand, NumDiv(Num(7), Num(10))) > 0 THEN "strong"
      ELSE IF RootCmp(absNumerator, radicand, NumDiv(Num(4), Num(10))) > 0 THEN "moderate"
      ELSE IF RootCmp(absNumerator, radicand, NumDiv(Num(1), Num(10))) > 0 THEN "weak"
      ELSE "none"

\* the classification of coefficient = numerator / Math.sqrt(radicand)
Strength(numerator, radicand) ==
  LET absNumerator == NumAbs(numerator)
  IN  IF RootCmp(absNumerator, radicand, NumDiv(Num(7), Num(10))) >= 0 THEN "strong"
      ELSE IF RootCmp(absNumerator, radicand, NumDiv(Num(4), Num(10))) >= 0 THEN "moderate"
      ELSE IF RootCmp(absNumerator, radicand, NumDiv(Num(1), Num(10))) >= 0 THEN "weak"
      ELSE "none"

Direction(numerator, radicand) ==
  IF RootCmp(numerator, radicand, NumDiv(Num(1), Num(10))) > 0 THEN "positive"
  ELSE IF RootCmp(numerator, radicand, NumDiv(Num(-1), Num(10))) < 0 THEN "negative"
  ELSE "none"

Coefficient(numerator, radicand) ==
  IF ~IsFin(numerator) \/ ~IsFin(radicand)
  THEN [t |-> "correlation", coefficient |-> NaN, strength |-> "none", direction |-> "none"]
  ELSE IF radicand.n = 0 THEN NoCorrelation
  ELSE [t |-> "correlation", coefficient |-> Round3(numerator, radicand),
        strength |-> Strength(numerator, radicand),
        direction |-> Direction(numerator, radicand)]

\* values.reduce((sum, val) => sum + val, 0) / n
Mean(values) == JSDiv(Sum(values), Num(Len(values)))

\* the sequence of values[i] - mean
Deviations(values, mean) ==
  Materialize([i \in 1..Len(values) |-> JSSub(values[i], mean)])

\* the sum of the products diff1[i] * diff2[i]
SumProducts(diff1, diff2) ==
  Sum(Materialize([i \in 1..Len(diff1) |-> NumMul(diff1[i], diff2[i])]))

\* the loop over the deviations: numerator, and sumSq1 * sumSq2 under the root
PearsonOf(diff1, diff2) ==
  Coefficient(SumProducts(diff1, diff2),
              NumMul(SumProducts(diff1, diff1), SumProducts(diff2, diff2)))

Column1(alignedPairs) ==
  Materialize([i \in 1..Len(alignedPairs) |-> alignedPairs[i].value1])

Column2(alignedPairs) ==
  Materialize([i \in 1..Len(alignedPairs) |-> alignedPairs[i].value2])

Centered(values) == Deviations(values, Mean(values))

\* the Pearson coefficient of the aligned pairs, classified and rounded
Pearson(alignedPairs) ==
  PearsonOf(Centered(Column1(alignedPairs)), Centered(Column2(alignedPairs)))

Correlate(alignedPairs) ==
  IF Len(alignedPairs) < 2 THEN NoCorrelation ELSE Pearson(alignedPairs)

calculateCorrelation(series1, series2) ==
  IF NoPoints(series1) \/ NoPoints(series2) THEN NoCorrelation
  ELSE Correlate(alignDataPoints(series1.dataPoints, series2.dataPoints))

\* !series || !series.dataPoints || series.dataPoints.length < least
FewerPoints(series, least) ==
  \/ ~Truthy(series)
  \/ series.t # "series"
  \/ Len(series.dataPoints) < least

\* v !== 0 for a number v
NotZero(v) == ~(IsFin(v) /\ v.n = 0)

\* the sums of the regression loop over x = 0 .. n-1
SumX(n) == (n * (n - 1)) \div 2
SumX2(n) == ((n - 1) * n * (2 * n - 1)) \div 6
SumXY(values) == Sum(Materialize([i \in 1..Len(values) |-> JSMul(Num(i - 1), values[i])]))

\* (n * sumXY - sumX * sumY) / (n * sumX2 - sumX * sumX)
SlopeOf(n, sumXY, sumY) ==
  JSDiv(JSSub(JSMul(Num(n), sumXY), JSMul(Num(SumX(n)), sumY)),
        Num(n * SumX2(n) - SumX(n) * SumX(n)))

Slope(values) == SlopeOf(Len(values), SumXY(values), Sum(values))

\* meanValue !== 0 ? slope / meanValue : slope
NormalizedSlopeOf(slope, meanValue) ==
  IF NotZero(meanValue) THEN NumDiv(slope, meanValue) ELSE slope

NormalizedSlope(values) == NormalizedSlopeOf(Slope(values), Mean(values))

TrendThreshold == Fin(1, 1, -2)

\* a classification with a threshold of 5% per data point
ClassifyCoarse(normalizedSlope) ==
  IF NumLess(Fin(5, 1, -2), normalizedSlope) THEN "increasing"
  ELSE IF NumLess(normalizedSlope, Fin(-5, 1, -2)) THEN "decreasing"
  ELSE "stable"

Classify(normalizedSlope) ==
  IF NumLess(TrendThreshold, normalizedSlope) THEN "increasing"
  ELSE IF NumLess(normalizedSlope, NumNeg(TrendThreshold)) THEN "decreasing"
  ELSE "stable"

detectTrends(series) ==
  IF FewerPoints(series, 2) THEN "stable"
  ELSE Classify(NormalizedSlope(Values(series.dataPoints)))

\* the floor of a finite number, as an integer
Floor(v) == (v.n * Pow10(v.e)) \div v.d

\* Math.round(v): the floor of v + 1/2
MathRound(v) == IF IsFin(v) THEN Num(Floor(NumAdd(v, Fin(1, 2, 0)))) ELSE v

\* Math.round(v * 100) / 100
Round2(v) == NumDiv(MathRound(NumMul(v, Num(100))), Num(100))

\* Math.sqrt(square) compared with the rational q, for a finite square >= 0:
\* -1, 0 or 1, the comparison being made on the squares
SqrtCmp(square, q) ==
  IF Sign(q) < 0 THEN 1 ELSE NumCmp(square, NumMul(q, q))

\* Math.round(100 * Math.sqrt(square)): the largest integer k of lo..hi with
\* k - 1/2 <= 100 * Math.sqrt(square)
RECURSIVE RoundSearch2(_, _, _)
RoundSearch2(square, lo, hi) ==
  IF lo >= hi THEN lo
  ELSE LET mid == (lo + hi + 1) \div 2
       IN  IF SqrtCmp(square, NumDiv(Num(2 * mid - 1), Num(200))) >= 0
           THEN RoundSearch2(square, mid, hi)
           ELSE RoundSearch2(square, lo, mid - 1)

\* the square of Math.abs((currentValue - mean) / stdDev)
ZScoreSquare(currentValue, mean, variance) ==
  NumDiv(NumMul(JSSub(currentValue, mean), JSSub(currentValue, mean)), variance)

\* Math.round(zScore * 100) / 100; zScore is at most the root of the number of
\* points
RoundedZScore(zScoreSquare, count) ==
  NumDiv(Num(RoundSearch2(zScoreSquare, 0, 100 * count)), Num(100))

\* values.reduce((sum, val) => sum + Math.pow(val - mean, 2), 0) / values.length
VarianceOf(values, mean) ==
  JSDiv(SumProducts(Deviations(values, mean), Deviations(values, mean)),
        Num(Len(values)))

Variance(values) == VarianceOf(values, Mean(values))

\* stdDev < 0.0001, for stdDev the root of a finite variance: variance * 10^8 < 1
StdDevTooSmall(variance) == NumLess(NumMul(variance, Fin(1, 1, 8)), One)

\* zScore > threshold
ZScoreExceeds(zScoreSquare, threshold) ==
  IsFin(zScoreSquare) /\ IsFin(threshold) /\ SqrtCmp(zScoreSquare, threshold) > 0

IsLocalMax(prevValue, currentValue, nextValue) ==
  JSGreater(currentValue, prevValue) /\ JSGreater(currentValue, nextValue)

IsLocalMin(prevValue, currentValue, nextValue) ==
  JSLess(currentValue, prevValue) /\ JSLess(currentValue, nextValue)

\* prevValue !== 0 ? ((currentValue - prevValue) / Math.abs(prevValue)) * 100 : 0
PercentChange(prevValue, currentValue) ==
  IF prevValue.t = "number" /\ ~NotZero(prevValue) THEN Zero
  ELSE NumMul(NumDiv(JSSub(currentValue, prevValue), NumAbs(ToNumber(prevValue))),
              Num(100))

Spike(sourceName, point, prevValue, mean, variance, count) ==
  [t |-> "spike",
   source |-> sourceName,
   timestamp |-> point.timestamp,
   value |-> point.originalValue,
   percentChange |-> Round2(PercentChange(prevValue, point.value)),
   zScore |-> RoundedZScore(ZScoreSquare(point.value, mean, variance), count)]

\* a test that looks at the z-score alone
IsSpikeAtAnyShape(values, i, mean, variance, threshold) ==
  ZScoreExceeds(ZScoreSquare(values[i], mean, variance), threshold)

\* the interior index i (1-based) holds a spike
IsSpikeAt(values, i, mean, variance, threshold) ==
  /\ ZScoreExceeds(ZScoreSquare(values[i], mean, variance), threshold)
  /\ \/ IsLocalMax(values[i - 1], values[i], values[i + 1])
     \/ IsLocalMin(values[i - 1], values[i], values[i + 1])

\* the loop over the interior points, in their order
SpikesOf(sourceName, dataPoints, values, mean, variance, threshold) ==
  LET kept == {i \in 2..(Len(values) - 1) : IsSpikeAt(values, i, mean, variance, threshold)}
      pos == Materialize([i \in 1..Len(values) |-> Cardinality({j \in kept : j <= i})])
  IN  Materialize([k \in 1..Cardinality(kept) |->
        LET i == CHOOSE i \in kept : pos[i] = k
        IN  Spike(sourceName, dataPoints[i], values[i - 1], mean, variance, Len(values))])

SpikesIn(sourceName, dataPoints, values, mean, variance, threshold) ==
  IF ~IsFin(variance) \/ StdDevTooSmall(variance) THEN <<>>
  ELSE SpikesOf(sourceName, dataPoints, values, mean, variance, threshold)

SpikesAround(sourceName, dataPoints, values, mean, threshold) ==
  SpikesIn(sourceName, dataPoints, values, mean, VarianceOf(values, mean), threshold)

DefaultSpikeThreshold == Fin(15, 1, -1)

detectSpikes(series, threshold) ==
  IF FewerPoints(series, 3) THEN <<>>
  ELSE SpikesAround(series.sourceName, series.dataPoints, Values(series.dataPoints),
                    Mean(Values(series.dataPoints)),
                    DefaultTo(threshold, DefaultSpikeThreshold))

\* the decimal digits of the fraction r/d, 0 <= r < d, as Number.prototype.toString
\* prints them (at most 17 significant digits)
RECURSIVE FractionDigits(_, _, _)
FractionDigits(r, d, left) ==
  IF r = 0 \/ left = 0 THEN ""
  ELSE ToString((r * 10) \div d) \o FractionDigits((r * 10) % d, d, left - 1)

\* String(v) for a non-negative finite number v
UnsignedText(v) ==
  LET whole == Floor(v)
      rest == v.n * Pow10(v.e) - whole * v.d
  IN  IF rest = 0 THEN ToString(whole)
      ELSE ToString(whole) \o "." \o FractionDigits(rest, v.d, 17)

\* String(v), the text a template literal puts in for the value v
Text(v) ==
  CASE v.t = "string" -> v.s
    [] v.t = "undefined" -> "undefined"
    [] v.t = "null" -> "null"
    [] v.t = "boolean" -> IF v.b THEN "true" ELSE "false"
    [] IsNaN(v) -> "NaN"
    [] IsInf(v) -> IF v.n > 0 THEN "Infinity" ELSE "-Infinity"
    [] IsFin(v) -> IF v.n < 0 THEN "-" \o UnsignedText(NumAbs(v)) ELSE UnsignedText(v)
    [] OTHER -> "[object Object]"

\* series.sourceName
SourceName(series) ==
  IF series.t = "series" THEN series.sourceName ELSE Get(series, "sourceName")

\* series.sourceName || fallback
NameOf(series, fallback) == Text(Or(SourceName(series), Str(fallback)))

TrendParts(name1, name2, trend1, trend2) ==
  IF trend1 # "stable" /\ trend2 # "stable"
  THEN name1 \o " is " \o trend1 \o ", while " \o name2 \o " is " \o trend2 \o "."
  ELSE IF trend1 # "stable" THEN name1 \o " is " \o trend1 \o "."
  ELSE name2 \o " is " \o trend2 \o "."

generateTrendInsight(series1, series2, trends) ==
  IF trends.source1 = "stable" /\ trends.source2 = "stable"
  THEN "Both " \o NameOf(series1, "First dataset") \o " and "
         \o NameOf(series2, "Second dataset")
         \o " show stable patterns over the observed period."
  ELSE TrendParts(NameOf(series1, "First dataset"), NameOf(series2, "Second dataset"),
                  trends.source1, trends.source2)

\* the civil date of day z counted from 1970-01-01, as <<year, month, day>>
CivilOf(doe, era) ==
  LET yoe == (doe - doe \div 1460 + doe \div 36524 - doe \div 146096) \div 365
      doy == doe - (365 * yoe + yoe \div 4 - yoe \div 100)
      mp == (5 * doy + 2) \div 153
      month == IF mp < 10 THEN mp + 3 ELSE mp - 9
  IN  <<yoe + era * 400 + (IF month <= 2 THEN 1 ELSE 0), month,
        doy - (153 * mp + 2) \div 5 + 1>>

CivilFromDays(z) ==
  CivilOf((z + 719468) % 146097, (z + 719468) \div 146097)

TwoDigits(i) == IF i < 10 THEN "0" \o ToString(i) ELSE ToString(i)

\* the host's locale and time zone: toLocaleDateString depends on both
Hosts ==
  {[dayFirst |-> FALSE, offsetMs |-> 0],
   [dayFirst |-> FALSE, offsetMs |-> -18000000],
   [dayFirst |-> TRUE, offsetMs |-> 0]}

DateText(civil, host) ==
  IF host.dayFirst
  THEN TwoDigits(civil[3]) \o "/" \o TwoDigits(civil[2]) \o "/" \o ToString(civil[1])
  ELSE ToString(civil[2]) \o "/" \o ToString(civil[3]) \o "/" \o ToString(civil[1])

\* new Date(timestamp).toLocaleDateString() on the host
toLocaleDateString(timestamp, host) ==
  IF ~IsFin(ToNumber(timestamp)) THEN "Invalid Date"
  ELSE DateText(CivilFromDays((Floor(ToNumber(timestamp)) + host.offsetMs) \div 86400000),
                host)

\* b sorts before a under (a, b) => Math.abs(b.percentChange) - Math.abs(a.percentChange)
SpikeBefore(a, b) ==
  NumLess(NumAbs(a.percentChange), NumAbs(b.percentChange))

\* the last spike, in the order of spikes, that no other spike outranks
LastTopSpike(spikes) ==
  spikes[CHOOSE i \in 1..Len(spikes) :
           /\ \A j \in 1..Len(spikes) : ~SpikeBefore(spikes[i], spikes[j])
           /\ \A j \in (i + 1)..Len(spikes) : SpikeBefore(spikes[j], spikes[i])]

\* sortedSpikes[0]: the first spike, in the order of spikes, that no other
\* spike outranks (the sort is stable)
TopSpike(spikes) ==
  spikes[CHOOSE i \in 1..Len(spikes) :
           /\ \A j \in 1..Len(spikes) : ~SpikeBefore(spikes[i], spikes[j])
           /\ \A j \in 1..(i - 1) : SpikeBefore(spikes[j], spikes[i])]

SpikeSentence(count, topSpike, direction, absChange, date) ==
  IF count = 1
  THEN "A notable " \o direction \o " of " \o absChange \o "% was detected in "
         \o Text(topSpike.source) \o " on " \o date \o "."
  ELSE "Notable fluctuations were detected, including a " \o absChange \o "% "
         \o direction \o " in " \o Text(topSpike.source) \o " on " \o date \o "."

SpikeInsightOf(count, topSpike, host) ==
  SpikeSentence(count, topSpike,
                IF NumLess(Zero, topSpike.percentChange) THEN "spike" ELSE "drop",
                Text(NumAbs(topSpike.percentChange)),
                toLocaleDateString(topSpike.timestamp, host))

generateSpikeInsight(spikes, host) ==
  IF Len(spikes) = 0 THEN "" ELSE SpikeInsightOf(Len(spikes), TopSpike(spikes), host)

generateCorrelationInsight(series1, series2, correlation) ==
  IF correlation.strength = "none"
  THEN "No significant correlation was found between "
         \o NameOf(series1, "First dataset") \o " and "
         \o NameOf(series2, "Second dataset") \o "."
  ELSE "A " \o correlation.strength \o " "
         \o (IF correlation.direction = "positive" THEN "positive" ELSE "negative")
         \o " correlation (r=" \o Text(correlation.coefficient) \o ") exists between "
         \o NameOf(series1, "First dataset") \o " and "
         \o NameOf(series2, "Second dataset") \o "."

\* insights.join(' ') over the texts that are not empty
JoinInsights(trendText, spikeText, correlationText) ==
  LET insights == SelectSeq(<<trendText, spikeText, correlationText>>,
                            LAMBDA text : text # "")
  IN  IF Len(insights) = 0
      THEN "The data shows stable patterns with no significant trends or correlations detected."
      ELSE IF Len(insights) = 1 THEN insights[1]
      ELSE IF Len(insights) = 2 THEN insights[1] \o " " \o insights[2]
      ELSE insights[1] \o " " \o insights[2] \o " " \o insights[3]

generateInsightText(series1, series2, trends, spikes, correlation, host) ==
  IF ~Truthy(series1) \/ ~Truthy(series2)
  THEN "Insufficient data to generate insights."
  ELSE JoinInsights(generateTrendInsight(series1, series2, trends),
                    generateSpikeInsight(spikes, host),
                    generateCorrelationInsight(series1, series2, correlation))

createEmptyAnalysis ==
  [t |-> "analysis",
   trends |-> [source1 |-> "stable", source2 |-> "stable"],
   spikes |-> <<>>,
   correlation |-> NoCorrelation,
   summary |-> "Insufficient data to generate insights."]

Analysis(series1, series2, trends, spikes, correlation, host) ==
  [t |-> "analysis",
   trends |-> trends,
   spikes |-> spikes,
   correlation |-> correlation,
   summary |-> generateInsightText(series1, series2, trends, spikes, correlation, host)]

\* an analysis that also gives up on a series without points
analyzeDataStrict(series1, series2, spikeThreshold, host) ==
  IF NoPoints(series1) \/ NoPoints(series2) THEN createEmptyAnalysis
  ELSE Analysis(series1, series2,
                [source1 |-> detectTrends(series1), source2 |-> detectTrends(series2)],
                detectSpikes(series1, spikeThreshold) \o detectSpikes(series2, spikeThreshold),
                calculateCorrelation(series1, series2), host)

\* analyzeData on an engine whose spikeThreshold field is spikeThreshold
analyzeData(series1, series2, spikeThreshold, host) ==
  IF ~Truthy(series1) \/ ~Truthy(series2) THEN createEmptyAnalysis
  ELSE Analysis(series1, series2,
                [source1 |-> detectTrends(series1), source2 |-> detectTrends(series2)],
                detectSpikes(series1, spikeThreshold) \o detectSpikes(series2, spikeThreshold),
                calculateCorrelation(series1, series2), host)

\* the constructor: this.spikeThreshold = options.spikeThreshold || 1.5
InsightEngineOf(options) ==
  [spikeThreshold |-> Or(Get(DefaultTo(options, EmptyObject), "spikeThreshold"),
                         DefaultSpikeThreshold)]

(***************************************************************************)
(* DataFetcherManager: fetchFromSource on one data source. Times are in ms. *)
(***************************************************************************)
WindowMs == 60000

\* the timestamps that handleRateLimit keeps: now - timestamp < windowMs
Recent(timestamps, time) == SelectSeq(timestamps, LAMBDA timestamp : time - timestamp < WindowMs)

\* handleRateLimit: the time to sleep once the kept timestamps reach
\* requestsPerMinute (0: no sleep). Without a kept timestamp the wait is NaN
\* and waitTime > 0 is false.
RateLimitWait(rateLimit, kept, time) ==
  IF rateLimit = Null THEN 0
  ELSE IF Len(kept) < rateLimit.requestsPerMinute \/ Len(kept) = 0 THEN 0
  ELSE IF rateLimit.strategy = "throttle" THEN WindowMs - (time - kept[1])
  ELSE IF rateLimit.strategy = "queue" THEN WindowMs - (time - kept[1]) + 100
  ELSE 0

\* config.options?.errorHandling || {maxRetries: 3, retryDelay: 1000, backoffMultiplier: 2}
DefaultErrorHandling == [maxRetries |-> 3, retryDelay |-> 1000, backoffMultiplier |-> 2]

ErrorConfig(errorHandling) ==
  IF errorHandling = Null THEN DefaultErrorHandling ELSE errorHandling

\* what fetch(url) brings: a network failure or a response with a status
NetworkFailure == [kind |-> "network", status |-> 0]
Response(status) == [kind |-> "http", status |-> status]

\* fetchFn: the error thrown for a response ("" for none: response.ok)
ErrorOf(response) ==
  IF response.kind = "network" THEN "NetworkError"
  ELSE IF response.status >= 200 /\ response.status <= 299 THEN ""
  ELSE IF response.status = 429 THEN "RateLimitError"
  ELSE IF response.status >= 500 THEN "ServerError"
  ELSE IF response.status >= 400 THEN "ClientError"
  ELSE "Error"

\* error instanceof ClientError && !(error instanceof RateLimitError)
NotRetried(error) == error = "ClientError"

\* a retry policy that also retries client errors
GivesUpOnLastAttempt(error, attempt, maxRetries) == attempt = maxRetries

\* retryWithBackoff gives up: a client error, or the last attempt
GivesUp(error, attempt, maxRetries) == NotRetried(error) \/ attempt = maxRetries

\* delay *= backoffMultiplier
NextDelay(delay, backoffMultiplier) == delay * backoffMultiplier

\* one fetchFromSource call that has not started
NotCalled ==
  [pc |-> "idle", attempt |-> 0, delay |-> 0, wake |-> 0, issuedAt |-> <<>>,
   failedAt |-> <<>>, errors |-> <<>>, waits |-> <<>>]

(***************************************************************************)
(* MCPConfigParser. An error is the message of the Error thrown, "" when    *)
(* nothing is thrown.                                                      *)
(***************************************************************************)
RequiredFields == <<"name", "endpoint", "method", "transformation">>

ValidMethods == {"GET", "POST", "PUT", "DELETE", "PATCH"}

ValidStrategies == {"throttle", "queue"}

\* source.method.toUpperCase(), on the method names that occur
ToUpperCase(text) ==
  CASE text = "get" -> "GET"
    [] text = "post" -> "POST"
    [] text = "fetch" -> "FETCH"
    [] OTHER -> text

\* the first of the required fields, from position i on, that source lacks
RECURSIVE MissingField(_, _)
MissingField(source, i) ==
  IF i > Len(RequiredFields) THEN ""
  ELSE IF ~Truthy(Get(source, RequiredFields[i])) THEN RequiredFields[i]
  ELSE MissingField(source, i + 1)

\* the checks of validateDataSource on source.rateLimit
RateLimitDefect(rateLimit) ==
  IF ~Truthy(rateLimit) THEN ""
  ELSE IF ~Truthy(Get(rateLimit, "requestsPerMinute"))
  THEN "rateLimit missing required field: requestsPerMinute"
  ELSE IF ~Truthy(Get(rateLimit, "strategy"))
  THEN "rateLimit missing required field: strategy"
  ELSE IF ~(Get(rateLimit, "strategy").t = "string"
              /\ Get(rateLimit, "strategy").s \in ValidStrategies)
  THEN "rateLimit has invalid strategy"
  ELSE ""

validateDataSource(source) ==
  IF source.t \in {"null", "undefined"} THEN "TypeError"
  ELSE IF MissingField(source, 1) # "" THEN "missing required field: " \o MissingField(source, 1)
  ELSE IF Get(source, "method").t # "string" THEN "TypeError"
  ELSE IF ToUpperCase(Get(source, "method").s) \notin ValidMethods THEN "invalid method"
  ELSE IF ~Truthy(Get(Get(source, "transformation"), "timestampField"))
  THEN "transformation missing required field: timestampField"
  ELSE IF ~Truthy(Get(Get(source, "transformation"), "valueField"))
  THEN "transformation missing required field: valueField"
  ELSE IF Truthy(Get(source, "authentication"))
            /\ ~Truthy(Get(Get(source, "authentication"), "type"))
  THEN "authentication missing required field: type"
  ELSE RateLimitDefect(Get(source, "rateLimit"))

\* the loop over the data sources from position i on: the first error
RECURSIVE FirstSourceError(_, _)
FirstSourceError(entries, i) ==
  IF i > Len(entries) THEN ""
  ELSE IF validateDataSource(entries[i][2]) # "" THEN validateDataSource(entries[i][2])
  ELSE FirstSourceError(entries, i + 1)

\* validateConfig on this.config = loaded
validateConfig(loaded) ==
  IF ~Truthy(loaded) THEN "No configuration loaded"
  ELSE IF ~Truthy(Get(loaded, "mcpVersion")) THEN "Missing required field: mcpVersion"
  ELSE IF ~Truthy(Get(loaded, "projectName")) THEN "Missing required field: projectName"
  ELSE IF ~Truthy(Get(loaded, "dataSources")) THEN "Missing required field: dataSources"
  ELSE IF Len(ObjectEntries(Get(loaded, "dataSources"))) = 0
  THEN "Configuration must contain at least one data source"
  ELSE FirstSourceError(ObjectEntries(Get(loaded, "dataSources")), 1)

NotLoaded == "Configuration not loaded. Call loadConfig() first."

Thrown(message) == [t |-> "throw", error |-> message]

\* the index in entries of the key sourceName, 0 when it is not there
KeyIndex(entries, sourceName) ==
  IF \E i \in 1..Len(entries) : entries[i][1] = sourceName
  THEN CHOOSE i \in 1..Len(entries) : entries[i][1] = sourceName
  ELSE 0

getDataSource(loaded, sourceName) ==
  IF ~Truthy(loaded) THEN Thrown(NotLoaded)
  ELSE IF ~Truthy(Get(loaded, "dataSources")) THEN Null
  ELSE LET entries == ObjectEntries(Get(loaded, "dataSources"))
       IN  IF KeyIndex(entries, sourceName) = 0
              \/ ~Truthy(entries[KeyIndex(entries, sourceName)][2])
           THEN Null
           ELSE entries[KeyIndex(entries, sourceName)][2]

\* Object.keys(this.config.dataSources || {})
getDataSourceNames(loaded) ==
  IF ~Truthy(loaded) THEN Thrown(NotLoaded)
  ELSE LET entries == ObjectEntries(Or(Get(loaded, "dataSources"), Dict(<<>>)))
       IN  Arr(Materialize([i \in 1..Len(entries) |-> Str(entries[i][1])]))

getConfig(loaded) == loaded

(***************************************************************************)
(* UIController                                                            *)
(***************************************************************************)
\* a handler that answers every event
NeverBusy(loading) == FALSE

\* if (this.isLoading) return
Busy(loading) == loading

\* a handler whose catch block leaves the loading state as it is
LoadingUnlessThrown(thrown) == thrown

\* isLoading after the awaited refreshData: hideLoading runs after the await
\* and in the catch block alike
LoadingAfterRefresh(thrown) == FALSE

\* a refreshData run that waits for fetchAllSources, begun by the handler by
Refresh(by, range) == [by |-> by, range |-> range]

(***************************************************************************)
(* Inputs                                                                  *)
(***************************************************************************)
MaxLen == 2          \* longest enumerated raw list
MaxExtra == 1        \* generated lists run up to MaxDataPoints + MaxExtra entries

SeqsUpTo(S, n) == UNION {[1..k -> S] : k \in 0..n}

\* transformConfig: omitted, null, {normalize: true}, {normalize: false}
TransformConfigs ==
  {Undefined, Null, Obj([normalize |-> Bool(TRUE)]), Obj([normalize |-> Bool(FALSE)])}

AirQualityItem(dt, aqi) == Obj([dt |-> dt, main |-> Obj([aqi |-> aqi])])

\* list entries: well-formed ones, and ones with a missing or mistyped field
AirQualityItems ==
  {AirQualityItem(Num(1), Num(1)), AirQualityItem(Num(2), Num(1)),
   AirQualityItem(Num(2), Num(3)), AirQualityItem(Num(0), Num(1)),
   Null,
   Obj([dt |-> Num(1), main |-> Undefined]),
   AirQualityItem(Undefined, Num(2)),
   AirQualityItem(Str("abc"), Num(2)),
   AirQualityItem(Num(3), Undefined),
   AirQualityItem(Num(3), Str("abc"))}

\* a generated list of len hourly entries, oldest first or newest first
AirQualityGenerated(len, ascending) ==
  Materialize([i \in 1..len |->
     LET j == IF ascending THEN i ELSE len + 1 - i
     IN  AirQualityItem(Num(3600 * j), Num((j % 5) + 1))])

GeneratedLengths == MaxDataPoints..(MaxDataPoints + MaxExtra)

AirQualityPayloads ==
  {Undefined, Null, Obj([list |-> Undefined]), Obj([list |-> Str("abc")])}
    \cup {Obj([list |-> Arr(l)]) : l \in SeqsUpTo(AirQualityItems, MaxLen)}
    \cup {Obj([list |-> Arr(AirQualityGenerated(len, asc))]) :
            len \in GeneratedLengths, asc \in BOOLEAN}

\* price points: well-formed ones, and ones too short or with a mistyped entry
PricePoints ==
  {Arr(<<Num(1000), Num(1)>>), Arr(<<Num(2000), Num(1)>>), Arr(<<Num(2000), Num(3)>>),
   Null,
   Arr(<<Num(3000)>>),
   Arr(<<Str("abc"), Num(2)>>),
   Arr(<<Num(3000), Str("abc")>>),
   Arr(<<Num(3000), Num(2), Num(7)>>)}

CryptoPayloads ==
  {Undefined, Null, Obj([prices |-> Undefined]), Obj([prices |-> Str("abc")])}
    \cup {Obj([prices |-> Arr(l)]) : l \in SeqsUpTo(PricePoints, MaxLen)}

WeatherTimes == {Str("1970-01-01T01:00"), Str("1970-01-01T02:00"), Str("not a date")}

WeatherTemperatures == {Num(1), Num(3), Null}

Hourly(time, temperature) == Obj([time |-> time, temperature_2m |-> temperature])

WeatherPayloads ==
  {Undefined, Null, Obj([hourly |-> Undefined]),
   Obj([hourly |-> Hourly(Undefined, Arr(<<Num(1)>>))]),
   Obj([hourly |-> Hourly(Arr(<<Str("1970-01-01T01:00")>>), Undefined)]),
   Obj([hourly |-> Hourly(Arr(<<Null, Str("1970-01-01T01:00")>>),
                          Arr(<<Num(1), Str("abc")>>))])}
    \cup {Obj([hourly |-> Hourly(Arr(time), Arr(temperature))]) :
            time \in SeqsUpTo(WeatherTimes, MaxLen),
            temperature \in SeqsUpTo(WeatherTemperatures, MaxLen)}

RateDates == {"1970-01-01", "1970-01-02", "n/a"}

RateObjects ==
  {Obj([USD |-> Num(1)]), Obj([USD |-> Num(3)]), Obj([USD |-> Undefined]),
   Obj([USD |-> Str("abc")])}

\* the rates objects of up to n entries: the keys of an object are distinct
RatesUpTo(n) ==
  {Dict(entries) : entries \in
     {l \in SeqsUpTo(RateDates \X RateObjects, n) :
        \A i, j \in 1..Len(l) : l[i][1] = l[j][1] => i = j}}

CurrencyPayloads ==
  {Undefined, Null, Obj([rates |-> Undefined]),
   Obj([rates |-> Dict(<< <<"1970-01-01", Null>> >>)])}
    \cup {Obj([rates |-> rates]) : rates \in RatesUpTo(MaxLen)}

\* items of a generic data array, read with the key paths below
GenericItems ==
  {Obj([ts |-> Num(1), value |-> Num(1)]), Obj([ts |-> Num(2), value |-> Num(1)]),
   Obj([ts |-> Num(2), value |-> Num(3)]),
   Null,
   Obj([ts |-> Str("abc"), value |-> Num(2)]),
   Obj([ts |-> Num(3), value |-> Null]),
   Obj([ts |-> Num(3), value |-> Obj([v |-> Num(2)])]),
   Arr(<<Num(3), Num(2)>>)}

\* <<valueKey, timestampKey>>
KeyPaths ==
  {<<Str("value"), Str("ts")>>,
   <<Str("value.v"), Str("ts")>>,
   <<Str("[][1]"), Str("[][0]")>>,
   <<Str("row[]"), Str("ts")>>,
   <<Undefined, Str("ts")>>,
   <<Num(1), Str("ts")>>}

GenericOptions ==
  {Undefined, Null,
   Obj([normalize |-> Bool(TRUE), sourceName |-> Str("Generic"), unit |-> Str("m")])}

\* timestamps around the bound between seconds and milliseconds, zero and a
\* negative one: 0, -5, 1.5, 9,900,000,000, 10,000,000,000, 10,100,000,000
EdgeTimestamps ==
  {Num(0), Num(-5), Fin(15, 1, -1), Fin(99, 1, 8), Fin(1, 1, 10), Fin(101, 1, 8)}

EdgeItems == {Obj([ts |-> t, value |-> Num(1)]) : t \in EdgeTimestamps}

GenericData ==
  {Undefined, Obj([ts |-> Num(1), value |-> Num(1)])}
    \cup {Arr(l) : l \in SeqsUpTo(GenericItems, MaxLen)}
    \cup {Arr(l) : l \in [1..2 -> EdgeItems]}

\* the arrays handed to limitDataPoints alone, and the caps
MaxLimitLen == 4

LimitPoints(len) == Materialize([i \in 1..len |-> DataPoint(Num(i), Num(i))])

LimitLengths == (0..MaxLimitLen) \cup GeneratedLengths

LimitCaps == {Undefined, Num(0), Num(1), Num(2), Num(3)}

\* series for the aligner and the correlation: sorted points at the times of
\* Times1 (first series) or Times2 (second series), as a canonicalizer that
\* was asked to normalize returns them
SeriesTimes1 == {0, 7000000, 7200000}
SeriesTimes2 == {0, 3500000}
SeriesValues == {1, 2}

SeriesOver(times, name) ==
  {Null}
    \cup {Finish(points, Bool(TRUE), Str(name), Str("")) :
            points \in {l \in SeqsUpTo({DataPoint(Num(time), Num(value)) :
                                          time \in times, value \in SeriesValues}, MaxLen) :
                          \A i \in 1..(Len(l) - 1) :
                            NumLessEq(l[i].timestamp, l[i + 1].timestamp)}}

Tolerances == {Undefined, Num(0)}

\* series for the trend, the spikes and the analysis: every value sequence of
\* up to MaxSeriesLen values, and longer ones with a spike, a plateau, a
\* steady rise, or values that are not numbers
MaxSeriesLen == 3

TrendValues == {Num(-1), Num(0), Num(1), Num(3)}

NumSeq(ints) == Materialize([i \in 1..Len(ints) |-> Num(ints[i])])

LongValueSeqs ==
  {NumSeq(<<1, 1, 1, 10, 1, 1, 1>>), NumSeq(<<1, 1, 10, 1, 1>>), NumSeq(<<1, 5, 5, 1>>),
   NumSeq(<<0, 0, 5, 0, 0>>), NumSeq(<<5, 5, 0, 5, 5>>), NumSeq(<<1, 2, 3, 4>>),
   NumSeq(<<100, 101>>), NumSeq(<<100, 103>>), NumSeq(<<-3, -2>>),
   <<Str("abc"), Str("abc")>>, <<Num(1), Str("abc"), Num(3)>>}

\* the gap in ms between two points of a series
TimeSteps == {1000, 3600000}

PointsOver(values, step) ==
  Materialize([i \in 1..Len(values) |-> DataPoint(Num((i - 1) * step), values[i])])

SeriesOf(name, values, step) ==
  Finish(PointsOver(values, step), Bool(FALSE), name, Str(""))

AnalysisSeries ==
  {Undefined, Null, Obj([sourceName |-> Str("A")])}
    \cup {SeriesOf(Str("A"), values, step) :
            values \in SeqsUpTo(TrendValues, MaxSeriesLen) \cup LongValueSeqs,
            step \in TimeSteps}

SpikeThresholds == {Undefined, Fin(5, 1, -1), Num(1), Fin(15, 1, -1)}

AnalyzeFirst ==
  {Undefined, Null, Obj([sourceName |-> Str("A")]),
   SeriesOf(Undefined, NumSeq(<<1, 3>>), 3600000)}
    \cup {SeriesOf(Str("A"), values, 3600000) :
            values \in {<<>>, NumSeq(<<1>>), NumSeq(<<1, 3>>), NumSeq(<<3, 1>>),
                        NumSeq(<<1, 1>>), NumSeq(<<0, 1, 0>>), NumSeq(<<1, 2, 4>>),
                        NumSeq(<<1, 1, 1, 10, 1, 1, 1>>), NumSeq(<<0, 0, 5, 0, 0>>),
                        NumSeq(<<0, 1, 3, 4>>), <<Str("abc"), Str("abc")>>}}

AnalyzeSecond ==
  {Undefined, Null}
    \cup {SeriesOf(Str("B"), values, 3600000) :
            values \in {<<>>, NumSeq(<<1, 3>>), NumSeq(<<1, 1>>), NumSeq(<<1, 3, 1>>),
                        NumSeq(<<5, 5, 0, 5, 5>>), NumSeq(<<1, 1, 1, 10, 1, 1, 1>>),
                        NumSeq(<<0, 4, 3, 1>>)}}

\* the options an engine is constructed with
EngineOptions == {Undefined, Obj([spikeThreshold |-> Num(1)])}

\* the data source configurations and the fetchFromSource calls that run
\* against one source: one call under every retry configuration, several
\* concurrent calls under a single retry
MaxCallers == 2

\* the time a response takes when it does not come at once
LatencyMs == 200

RateLimits ==
  {Null,
   [requestsPerMinute |-> 1, strategy |-> "throttle"],
   [requestsPerMinute |-> 1, strategy |-> "queue"],
   [requestsPerMinute |-> 2, strategy |-> "throttle"]}

SingleRetry == [maxRetries |-> 1, retryDelay |-> 500, backoffMultiplier |-> 3]

NoRetry == [maxRetries |-> 0, retryDelay |-> 1000, backoffMultiplier |-> 2]

ErrorHandlings == {Null, SingleRetry, NoRetry}

\* one call with every configuration; two concurrent calls with one retry;
\* more concurrent calls without retry against a limit of one request
FetcherSetups ==
  {[callers |-> 1, rateLimit |-> r, errorHandling |-> e] :
     r \in RateLimits, e \in ErrorHandlings}
    \cup {[callers |-> 2, rateLimit |-> r, errorHandling |-> SingleRetry] :
            r \in RateLimits}
    \cup {[callers |-> n,
           rateLimit |-> [requestsPerMinute |-> 1, strategy |-> "throttle"],
           errorHandling |-> NoRetry] : n \in 3..MaxCallers}

Responses ==
  {NetworkFailure, Response(200), Response(302), Response(404), Response(429),
   Response(500)}

\* what the server answers: anything to a single call, success or a server
\* error to concurrent calls
ResponsesTo(callers) ==
  IF callers = 1 THEN Responses ELSE {Response(200), Response(500)}

\* configuration files for the parser: a source that is complete, and the
\* same with one defect
GoodSource(sourceName) ==
  [name |-> Str(sourceName),
   endpoint |-> Str("https://api.example.org/data"),
   method |-> Str("GET"),
   transformation |-> Obj([timestampField |-> Str("dt"), valueField |-> Str("value")]),
   authentication |-> Undefined,
   rateLimit |-> Obj([requestsPerMinute |-> Num(60), strategy |-> Str("throttle")])]

Defects(source) ==
  {[source EXCEPT !.name = Undefined],
   [source EXCEPT !.endpoint = Undefined],
   [source EXCEPT !.endpoint = Str("")],
   [source EXCEPT !.method = Undefined],
   [source EXCEPT !.method = Str("fetch")],
   [source EXCEPT !.method = Num(5)],
   [source EXCEPT !.transformation = Undefined],
   [source EXCEPT !.transformation = Obj([valueField |-> Str("value")])],
   [source EXCEPT !.transformation = Obj([timestampField |-> Str("dt")])],
   [source EXCEPT !.authentication = Obj([key |-> Str("k")])],
   [source EXCEPT !.rateLimit = Obj([strategy |-> Str("throttle")])],
   [source EXCEPT !.rateLimit = Obj([requestsPerMinute |-> Num(60)])],
   [source EXCEPT !.rateLimit = Obj([requestsPerMinute |-> Num(60),
                                     strategy |-> Str("burst")])]}

Variations(source) ==
  {source,
   [source EXCEPT !.method = Str("post")],
   [source EXCEPT !.authentication = Obj([type |-> Str("query_param")])],
   [source EXCEPT !.rateLimit = Undefined],
   [source EXCEPT !.rateLimit = Obj([requestsPerMinute |-> Num(30),
                                     strategy |-> Str("queue")])]}

SourcesNamed(sourceName) ==
  {Obj(source) : source \in Variations(GoodSource(sourceName))
                            \cup Defects(GoodSource(sourceName))}

SourceKeys == <<"airQuality", "cryptocurrency", "weather", "currency">>

ConfigOf(entries) ==
  Obj([mcpVersion |-> Str("1.0"), projectName |-> Str("data-weaver"),
       dataSources |-> Dict(entries)])

MaxSources == 3

\* the values JSON.parse can return for the file: null, a configuration
\* without one of the top-level fields, configurations of 0 to MaxSources
\* data sources, at most one of them not the complete one
ConfigFiles ==
  {Null,
   Obj([projectName |-> Str("data-weaver"), dataSources |-> Dict(<<>>)]),
   Obj([mcpVersion |-> Str("1.0"), dataSources |-> Dict(<<>>)]),
   Obj([mcpVersion |-> Str("1.0"), projectName |-> Str("data-weaver")]),
   ConfigOf(<<>>)}
    \cup {ConfigOf(<<<<"airQuality", first>>>>) : first \in SourcesNamed("airQuality")}
    \cup {ConfigOf(<<<<"airQuality", first>>,
                     <<"cryptocurrency", Obj(GoodSource("cryptocurrency"))>>>>) :
            first \in SourcesNamed("airQuality")}
    \cup {ConfigOf(<<<<"airQuality", Obj(GoodSource("airQuality"))>>,
                     <<"cryptocurrency", second>>>>) :
            second \in SourcesNamed("cryptocurrency")}
    \cup {ConfigOf(Materialize([i \in 1..n |->
                      <<SourceKeys[i], Obj(GoodSource(SourceKeys[i]))>>])) :
            n \in 3..MaxSources}

\* what the fetch of the file and the parse of its text can give
FetchOutcomes == {"network error", "not ok", "ok"}

QueriedNames == {"airQuality", "cryptocurrency", "weather", "unknown"}

\* the values of the time range selector
TimeRanges == {"24h", "7d", "30d"}

\* the number of click and change events delivered
MaxEvents == 3

(***************************************************************************)
(* The state: the operation called (or "idle"), its arguments as they were *)
(* passed, the caller's argument objects as the call left them, and what   *)
(* the call returned or threw (Pending until it has run).                  *)
(***************************************************************************)
VARIABLES op, args, held, result

\* DataFetcherManager: the clock, the configuration of the data source, the
\* field requestTimestamps[sourceName], the times at which fetch(url) was
\* called, and the fetchFromSource calls with their position
VARIABLES now, sourceConfig, requestTimestamps, issued, fetches

\* MCPConfigParser: the field config, the position of the loadConfig call
\* ("idle" when none is running), and the last call that ended with what it
\* returned or threw
VARIABLES config, loading, answer

\* UIController: how far initialize has come, the fields isLoading and
\* currentTimeRange, the refreshData runs waiting for their fetches, and the
\* click and change events delivered so far
VARIABLES phase, isLoading, currentTimeRange, refreshes, events

pipelineVars == <<op, args, held, result>>
fetcherVars == <<now, sourceConfig, requestTimestamps, issued, fetches>>
parserVars == <<config, loading, answer>>
uiVars == <<phase, isLoading, currentTimeRange, refreshes, events>>

vars ==
  <<op, args, held, result, now, sourceConfig, requestTimestamps, issued, fetches,
    config, loading, answer, phase, isLoading, currentTimeRange, refreshes, events>>

\* the variables of the other components
besidesPipeline == <<fetcherVars, parserVars, uiVars>>
besidesFetcher == <<pipelineVars, parserVars, uiVars>>
besidesParser == <<pipelineVars, fetcherVars, uiVars>>
besidesUI == <<pipelineVars, fetcherVars, parserVars>>

NoArgs == [none |-> TRUE]
Pending == [t |-> "pending"]

Call(name, arguments) == [op |-> name, args |-> arguments]

AirQualityCalls ==
  {Call("normalizeAirQuality", [rawData |-> r, transformConfig |-> c]) :
     r \in AirQualityPayloads, c \in TransformConfigs}

CryptoCalls ==
  {Call("normalizeCrypto", [rawData |-> r, transformConfig |-> c]) :
     r \in CryptoPayloads, c \in TransformConfigs}

WeatherCalls ==
  {Call("normalizeWeather", [rawData |-> r, transformConfig |-> c]) :
     r \in WeatherPayloads, c \in TransformConfigs}

CurrencyCalls ==
  {Call("normalizeCurrency", [rawData |-> r, transformConfig |-> c]) :
     r \in CurrencyPayloads, c \in TransformConfigs}

GenericCalls ==
  {Call("createTimeSeries",
        [data |-> d, valueKey |-> k[1], timestampKey |-> k[2], options |-> o]) :
     d \in GenericData, k \in KeyPaths, o \in GenericOptions}

LimitCalls ==
  {Call("limitDataPoints", [dataPoints |-> LimitPoints(len), maxPoints |-> cap]) :
     len \in LimitLengths, cap \in LimitCaps}

\* series as a caller may build them by hand, the points in any order: the
\* first with one point at 0 or at 3,600,000, the second with points around
\* one hour, one of them further than the tolerance from 0
NearTimes1 == {0, 3600000}
NearTimes2 == {3500000, 3700000, 7300000}

SeriesIn(points, name) == Finish(points, Bool(FALSE), Str(name), Str(""))

NearSeries1 ==
  {SeriesIn(<<DataPoint(Num(time), Num(1))>>, "A") : time \in NearTimes1}

NearSeries2 ==
  {SeriesIn(points, "B") :
     points \in {l \in SeqsUpTo({DataPoint(Num(time), Num(value)) :
                                   time \in NearTimes2, value \in SeriesValues}, MaxLen) :
                   Len(l) >= 1}}

AlignCalls ==
  {Call("alignTimeSeriesByTimestamp",
        [series1 |-> s1, series2 |-> s2, toleranceMs |-> tolerance]) :
     s1 \in SeriesOver(SeriesTimes1, "A"), s2 \in SeriesOver(SeriesTimes2, "B"),
     tolerance \in Tolerances}
    \cup {Call("alignTimeSeriesByTimestamp",
               [series1 |-> s1, series2 |-> s2, toleranceMs |-> tolerance]) :
            s1 \in NearSeries1, s2 \in NearSeries2,
            tolerance \in {Undefined, Num(3600000)}}

\* series of three points one second apart for the correlation: rising,
\* constant, with a value that is not a number, with an infinite value
CorrelationValues ==
  {NumSeq(<<1, 2, 3>>), NumSeq(<<2, 2, 2>>), NumSeq(<<3, 1, 1>>),
   <<Num(1), Str("abc"), Num(3)>>, <<Num(1), Infinity, Num(3)>>}

CorrelationSeries(name) ==
  {SeriesOf(Str(name), values, 1000) : values \in CorrelationValues}

\* series of four points at the edges of the strength bands: with 0,1,3,4
\* the values 0,4,3,1 give r = 0.1 and 1,3,4,0 give r = -0.1; with 0,0,1,2
\* the values 0,2,0,5 give r = 0.69987...; with 0,0,1,3 the values 0,5,0,2
\* give r = -0.09975...
BandValues1 == {NumSeq(<<0, 1, 3, 4>>), NumSeq(<<0, 0, 1, 2>>), NumSeq(<<0, 0, 1, 3>>)}

BandValues2 ==
  {NumSeq(<<0, 4, 3, 1>>), NumSeq(<<1, 3, 4, 0>>), NumSeq(<<0, 2, 0, 5>>),
   NumSeq(<<3, 5, 5, 0>>), NumSeq(<<0, 5, 0, 2>>), NumSeq(<<0, 5, 5, 3>>),
   NumSeq(<<0, 1, 3, 5>>)}

CorrelationCalls ==
  {Call("calculateCorrelation", [series1 |-> s1, series2 |-> s2]) :
     s1 \in SeriesOver(SeriesTimes1, "A"), s2 \in SeriesOver(SeriesTimes2, "B")}
    \cup {Call("calculateCorrelation", [series1 |-> s1, series2 |-> s2]) :
            s1 \in CorrelationSeries("A"), s2 \in CorrelationSeries("B")}
    \cup {Call("calculateCorrelation",
               [series1 |-> SeriesOf(Str("A"), v1, 1000),
                series2 |-> SeriesOf(Str("B"), v2, 1000)]) :
            v1 \in BandValues1, v2 \in BandValues2}

TrendCalls == {Call("detectTrends", [series |-> s]) : s \in AnalysisSeries}

SpikeCalls ==
  {Call("detectSpikes", [series |-> s, threshold |-> threshold]) :
     s \in AnalysisSeries, threshold \in SpikeThresholds}

AnalyzeCalls ==
  {Call("analyzeData", [series1 |-> s1, series2 |-> s2, engine |-> InsightEngineOf(o)]) :
     s1 \in AnalyzeFirst, s2 \in AnalyzeSecond, o \in EngineOptions}

Calls ==
  AirQualityCalls \cup CryptoCalls \cup WeatherCalls \cup CurrencyCalls
    \cup GenericCalls \cup LimitCalls \cup AlignCalls \cup CorrelationCalls
    \cup TrendCalls \cup SpikeCalls \cup AnalyzeCalls

\* no operation of the pipeline is called
PipelineIdle ==
  /\ op = "idle"
  /\ args = NoArgs
  /\ held = NoArgs
  /\ result = Undefined

\* no fetcher exists
FetcherAbsent ==
  /\ now = 0
  /\ sourceConfig = Null
  /\ requestTimestamps = <<>>
  /\ issued = <<>>
  /\ fetches = <<>>

NoAnswer == [call |-> "none", value |-> Undefined]

\* a parser as its constructor leaves it
ParserNew ==
  /\ config = Null
  /\ loading = "idle"
  /\ answer = NoAnswer

\* a controller as its constructor leaves it
UINew ==
  /\ phase = "constructed"
  /\ isLoading = FALSE
  /\ currentTimeRange = "24h"
  /\ refreshes = <<>>
  /\ events = <<>>

Init ==
  /\ PipelineIdle
  /\ FetcherAbsent
  /\ ParserNew
  /\ UINew

\* a caller invokes an operation with arguments of its choice
Invoke ==
  /\ op = "idle"
  /\ \E call \in Calls :
       /\ op' = call.op
       /\ args' = call.args
       /\ held' = call.args
  /\ result' = Pending
  /\ UNCHANGED besidesPipeline

Running(name) == op = name /\ result = Pending

RunNormalizeAirQuality ==
  /\ Running("normalizeAirQuality")
  /\ result' \in normalizeAirQuality(args.rawData, args.transformConfig)
  /\ UNCHANGED <<op, args, held>>
  /\ UNCHANGED besidesPipeline

RunNormalizeCrypto ==
  /\ Running("normalizeCrypto")
  /\ result' \in normalizeCrypto(args.rawData, args.transformConfig)
  /\ UNCHANGED <<op, args, held>>
  /\ UNCHANGED besidesPipeline

RunNormalizeWeather ==
  /\ Running("normalizeWeather")
  /\ result' \in normalizeWeather(args.rawData, args.transformConfig)
  /\ UNCHANGED <<op, args, held>>
  /\ UNCHANGED besidesPipeline

RunNormalizeCurrency ==
  /\ Running("normalizeCurrency")
  /\ result' \in normalizeCurrency(args.rawData, args.transformConfig)
  /\ UNCHANGED <<op, args, held>>
  /\ UNCHANGED besidesPipeline

RunCreateTimeSeries ==
  /\ Running("createTimeSeries")
  /\ result' \in createTimeSeries(args.data, args.valueKey, args.timestampKey,
                                  args.options)
  /\ UNCHANGED <<op, args, held>>
  /\ UNCHANGED besidesPipeline

\* the maxPoints parameter (default 100) as an integer
LimitArg(maxPoints) ==
  LET cap == DefaultTo(maxPoints, Num(MaxDataPoints))
  IN  cap.n * Pow10(cap.e)

\* limitDataPoints returns nothing; it cuts the caller's array in place
RunLimitDataPoints ==
  /\ Running("limitDataPoints")
  /\ held' = [held EXCEPT !.dataPoints =
                limitDataPoints(held.dataPoints, LimitArg(held.maxPoints))]
  /\ result' = Undefined
  /\ UNCHANGED <<op, args>>
  /\ UNCHANGED besidesPipeline

RunAlignTimeSeriesByTimestamp ==
  /\ Running("alignTimeSeriesByTimestamp")
  /\ result' = alignTimeSeriesByTimestamp(args.series1, args.series2, args.toleranceMs)
  /\ UNCHANGED <<op, args, held>>
  /\ UNCHANGED besidesPipeline

RunCalculateCorrelation ==
  /\ Running("calculateCorrelation")
  /\ result' = calculateCorrelation(args.series1, args.series2)
  /\ UNCHANGED <<op, args, held>>
  /\ UNCHANGED besidesPipeline

RunDetectTrends ==
  /\ Running("detectTrends")
  /\ result' = Str(detectTrends(args.series))
  /\ UNCHANGED <<op, args, held>>
  /\ UNCHANGED besidesPipeline

RunDetectSpikes ==
  /\ Running("detectSpikes")
  /\ result' = Arr(detectSpikes(args.series, args.threshold))
  /\ UNCHANGED <<op, args, held>>
  /\ UNCHANGED besidesPipeline

\* the date in the summary is the host's rendering
RunAnalyzeData ==
  /\ Running("analyzeData")
  /\ \E host \in Hosts :
       result' = analyzeData(args.series1, args.series2, args.engine.spikeThreshold, host)
  /\ UNCHANGED <<op, args, held>>
  /\ UNCHANGED besidesPipeline

\* the caller drops the result; the next call starts from the idle state
Return ==
  /\ op # "idle"
  /\ result # Pending
  /\ op' = "idle"
  /\ args' = NoArgs
  /\ held' = NoArgs
  /\ result' = Undefined
  /\ UNCHANGED besidesPipeline

Next ==
  \/ Invoke
  \/ RunNormalizeAirQuality
  \/ RunNormalizeCrypto
  \/ RunNormalizeWeather
  \/ RunNormalizeCurrency
  \/ RunCreateTimeSeries
  \/ RunLimitDataPoints
  \/ RunAlignTimeSeriesByTimestamp
  \/ RunCalculateCorrelation
  \/ RunDetectTrends
  \/ RunDetectSpikes
  \/ RunAnalyzeData
  \/ Return

Spec == Init /\ [][Next]_vars

(***************************************************************************)
(* The fetcher: fetchFromSource calls against one source, interleaved at   *)
(* their awaits                                                            *)
(***************************************************************************)
FetcherInit ==
  /\ now = 0
  /\ requestTimestamps = <<>>
  /\ issued = <<>>
  /\ \E setup \in FetcherSetups :
       /\ sourceConfig = [rateLimit |-> setup.rateLimit,
                          errorHandling |-> setup.errorHandling]
       /\ fetches = [c \in 1..setup.callers |-> NotCalled]

FetchInit ==
  /\ PipelineIdle
  /\ FetcherInit
  /\ ParserNew
  /\ UINew

\* fetchFromSource up to its first await: handleRateLimit drops the old
\* timestamps and sleeps when requestsPerMinute of them are left
CallFetchFromSource ==
  \E c \in DOMAIN fetches :
    /\ fetches[c].pc = "idle"
    /\ LET kept == Recent(requestTimestamps, now)
           waitTime == RateLimitWait(sourceConfig.rateLimit, kept, now)
       IN  /\ requestTimestamps' =
                IF sourceConfig.rateLimit = Null THEN requestTimestamps ELSE kept
           /\ fetches' = [fetches EXCEPT ![c] =
                IF waitTime > 0
                THEN [@ EXCEPT !.pc = "rateLimitSleep", !.wake = now + waitTime]
                ELSE [@ EXCEPT !.pc = "rateLimitPassed"]]
    /\ UNCHANGED <<now, sourceConfig, issued>>
    /\ UNCHANGED besidesFetcher

\* handleRateLimit after its sleep: the timestamps are cleaned up once more
WakeFromRateLimit ==
  \E c \in DOMAIN fetches :
    /\ fetches[c].pc = "rateLimitSleep"
    /\ now >= fetches[c].wake
    /\ requestTimestamps' = Recent(requestTimestamps, now)
    /\ fetches' = [fetches EXCEPT ![c].pc = "rateLimitPassed"]
    /\ UNCHANGED <<now, sourceConfig, issued>>
    /\ UNCHANGED besidesFetcher

\* after handleRateLimit: retryWithBackoff calls fn, which calls fetch(url)
FirstAttempt ==
  \E c \in DOMAIN fetches :
    /\ fetches[c].pc = "rateLimitPassed"
    /\ issued' = Append(issued, now)
    /\ fetches' = [fetches EXCEPT ![c] =
         [@ EXCEPT !.pc = "inFlight",
                   !.attempt = 0,
                   !.delay = ErrorConfig(sourceConfig.errorHandling).retryDelay,
                   !.issuedAt = Append(@, now)]]
    /\ UNCHANGED <<now, sourceConfig, requestTimestamps>>
    /\ UNCHANGED besidesFetcher

\* fetch settles. A good response records its timestamp and resolves the call;
\* an error ends the call or starts the sleep before the next attempt.
Settle ==
  \E c \in DOMAIN fetches, response \in ResponsesTo(Len(fetches)) :
    /\ fetches[c].pc = "inFlight"
    /\ LET error == ErrorOf(response)
           errorConfig == ErrorConfig(sourceConfig.errorHandling)
       IN  IF error = ""
           THEN /\ requestTimestamps' = Append(requestTimestamps, now)
                /\ fetches' = [fetches EXCEPT ![c] =
                     [@ EXCEPT !.pc = "resolved", !.errors = Append(@, error)]]
           ELSE /\ requestTimestamps' = requestTimestamps
                /\ fetches' = [fetches EXCEPT ![c] =
                     IF GivesUp(error, fetches[c].attempt, errorConfig.maxRetries)
                     THEN [@ EXCEPT !.pc = "rejected",
                                    !.errors = Append(@, error),
                                    !.failedAt = Append(@, now)]
                     ELSE [@ EXCEPT !.pc = "backoff",
                                    !.errors = Append(@, error),
                                    !.failedAt = Append(@, now),
                                    !.wake = now + fetches[c].delay,
                                    !.waits = Append(@, fetches[c].delay),
                                    !.delay = NextDelay(@, errorConfig.backoffMultiplier)]]
    /\ UNCHANGED <<now, sourceConfig, issued>>
    /\ UNCHANGED besidesFetcher

\* the sleep of retryWithBackoff is over: the next attempt calls fetch(url)
RetryAttempt ==
  \E c \in DOMAIN fetches :
    /\ fetches[c].pc = "backoff"
    /\ now >= fetches[c].wake
    /\ issued' = Append(issued, now)
    /\ fetches' = [fetches EXCEPT ![c] =
         [@ EXCEPT !.pc = "inFlight",
                   !.attempt = @ + 1,
                   !.issuedAt = Append(@, now)]]
    /\ UNCHANGED <<now, sourceConfig, requestTimestamps>>
    /\ UNCHANGED besidesFetcher

\* the instants at which something is due: a sleep ends, a response that did
\* not come at once arrives
NextInstants ==
  {fetches[c].wake : c \in {d \in DOMAIN fetches :
                              fetches[d].pc \in {"rateLimitSleep", "backoff"}}}
    \cup {fetches[c].issuedAt[Len(fetches[c].issuedAt)] + LatencyMs :
            c \in {d \in DOMAIN fetches : fetches[d].pc = "inFlight"}}

\* time passes, up to the next instant at which something is due
Tick ==
  /\ \E t \in NextInstants :
       /\ t > now
       /\ \A u \in NextInstants : u > now => t <= u
       /\ now' = t
  /\ UNCHANGED <<sourceConfig, requestTimestamps, issued, fetches>>
  /\ UNCHANGED besidesFetcher

FetchNext ==
  \/ CallFetchFromSource
  \/ WakeFromRateLimit
  \/ FirstAttempt
  \/ Settle
  \/ RetryAttempt
  \/ Tick

FetchSpec == FetchInit /\ [][FetchNext]_vars

(***************************************************************************)
(* The parser: loadConfig with its two awaits, and the calls that read the  *)
(* configuration                                                           *)
(***************************************************************************)
Answer(call, value) == [call |-> call, value |-> value]

SyntaxError == [t |-> "syntaxError"]

\* loadConfig up to its first await: fetch(this.configPath)
CallLoadConfig ==
  /\ loading = "idle"
  /\ loading' = "fetch"
  /\ UNCHANGED <<config, answer>>
  /\ UNCHANGED besidesParser

\* the fetch fails, or the response is not ok, or response.text() is awaited
FetchSettles ==
  /\ loading = "fetch"
  /\ \E outcome \in FetchOutcomes :
       IF outcome = "ok"
       THEN /\ loading' = "text"
            /\ answer' = answer
       ELSE /\ loading' = "idle"
            /\ answer' = Answer("loadConfig", Thrown(outcome))
  /\ UNCHANGED config
  /\ UNCHANGED besidesParser

\* the text is there: JSON.parse, this.config = ..., validateConfig()
TextArrives ==
  /\ loading = "text"
  /\ \E parsed \in ConfigFiles \cup {SyntaxError} :
       IF parsed = SyntaxError
       THEN /\ config' = config
            /\ answer' = Answer("loadConfig", Thrown("Invalid JSON in config file"))
       ELSE /\ config' = parsed
            /\ answer' = Answer("loadConfig",
                                IF validateConfig(parsed) = "" THEN parsed
                                ELSE Thrown(validateConfig(parsed)))
  /\ loading' = "idle"
  /\ UNCHANGED besidesParser

CallValidateConfig ==
  /\ answer' = Answer("validateConfig",
                      IF validateConfig(config) = "" THEN Undefined
                      ELSE Thrown(validateConfig(config)))
  /\ UNCHANGED <<config, loading>>
  /\ UNCHANGED besidesParser

CallGetDataSource ==
  /\ \E sourceName \in QueriedNames :
       answer' = Answer("getDataSource", getDataSource(config, sourceName))
  /\ UNCHANGED <<config, loading>>
  /\ UNCHANGED besidesParser

CallGetDataSourceNames ==
  /\ answer' = Answer("getDataSourceNames", getDataSourceNames(config))
  /\ UNCHANGED <<config, loading>>
  /\ UNCHANGED besidesParser

CallGetConfig ==
  /\ answer' = Answer("getConfig", getConfig(config))
  /\ UNCHANGED <<config, loading>>
  /\ UNCHANGED besidesParser

ParserNext ==
  \/ CallLoadConfig
  \/ FetchSettles
  \/ TextArrives
  \/ CallValidateConfig
  \/ CallGetDataSource
  \/ CallGetDataSourceNames
  \/ CallGetConfig

ParserSpec == Init /\ [][ParserNext]_vars

(***************************************************************************)
(* The controller: initialize, the click and change events, and the        *)
(* refreshData runs, interleaved at their awaits                           *)
(***************************************************************************)
\* setupEventListeners has run
Listening == phase \in {"refreshData", "initialized", "refreshFailed"}

\* the refreshData run of the handler that is waiting, "none" without one
Waiting == IF refreshes = <<>> THEN "none" ELSE refreshes[1].by

Event(handler, range) ==
  [handler |-> handler, range |-> range, whileLoading |-> isLoading, during |-> Waiting]

\* initialize up to its first await: showLoading, then loadConfig
Initialize ==
  /\ phase = "constructed"
  /\ phase' = "loadConfig"
  /\ isLoading' = TRUE
  /\ UNCHANGED <<currentTimeRange, refreshes, events>>
  /\ UNCHANGED besidesUI

\* loadConfig has settled: it threw or the canvas is missing (hideLoading,
\* rethrow), or the listeners are set up and refreshData is awaited
ComponentsReady ==
  /\ phase = "loadConfig"
  /\ \E outcome \in {"config error", "no canvas", "ok"} :
       IF outcome = "ok"
       THEN /\ phase' = "refreshData"
            /\ refreshes' = Append(refreshes, Refresh("initialize", currentTimeRange))
            /\ isLoading' = isLoading
       ELSE /\ phase' = "failed"
            /\ refreshes' = refreshes
            /\ isLoading' = FALSE
  /\ UNCHANGED <<currentTimeRange, events>>
  /\ UNCHANGED besidesUI

\* a click on the refresh button: handleRefresh up to its await
HandleRefresh ==
  /\ Listening
  /\ Len(events) < MaxEvents
  /\ events' = Append(events, Event("handleRefresh", ""))
  /\ IF Busy(isLoading)
     THEN UNCHANGED <<isLoading, refreshes>>
     ELSE /\ isLoading' = TRUE
          /\ refreshes' = Append(refreshes, Refresh("handleRefresh", currentTimeRange))
  /\ UNCHANGED <<phase, currentTimeRange>>
  /\ UNCHANGED besidesUI

\* a change of the time range selector: handleTimeRangeChange up to its await
HandleTimeRangeChange ==
  /\ Listening
  /\ Len(events) < MaxEvents
  /\ \E range \in TimeRanges :
       /\ events' = Append(events, Event("handleTimeRangeChange", range))
       /\ IF Busy(isLoading)
          THEN UNCHANGED <<isLoading, currentTimeRange, refreshes>>
          ELSE /\ currentTimeRange' = range
               /\ isLoading' = TRUE
               /\ refreshes' = Append(refreshes, Refresh("handleTimeRangeChange", range))
  /\ UNCHANGED phase
  /\ UNCHANGED besidesUI

\* the sequence without its element at position i
Without(seq, i) == SubSeq(seq, 1, i - 1) \o SubSeq(seq, i + 1, Len(seq))

\* a refreshData run returns or throws: its handler calls hideLoading
RefreshSettles ==
  /\ \E i \in 1..Len(refreshes), thrown \in BOOLEAN :
       /\ refreshes' = Without(refreshes, i)
       /\ phase' = IF refreshes[i].by # "initialize" THEN phase
                   ELSE IF thrown THEN "refreshFailed" ELSE "initialized"
       /\ isLoading' = LoadingAfterRefresh(thrown)
  /\ UNCHANGED <<currentTimeRange, events>>
  /\ UNCHANGED besidesUI

UINext ==
  \/ Initialize
  \/ ComponentsReady
  \/ HandleRefresh
  \/ HandleTimeRangeChange
  \/ RefreshSettles

UISpec == Init /\ [][UINext]_vars

\* every awaited promise settles: loadConfig's fetch, and the fetches and retry
\* delays of a refreshData run
UILive ==
  /\ Init
  /\ [][UINext]_vars
  /\ WF_vars(ComponentsReady)
  /\ WF_vars(RefreshSettles)

(***************************************************************************)
(* Properties                                                              *)
(***************************************************************************)
Canonicalizers ==
  {"normalizeAirQuality", "normalizeCrypto", "normalizeWeather", "normalizeCurrency",
   "createTimeSeries"}

\* a canonicalizer call has ended, by a return or a throw
Finished == op \in Canonicalizers /\ result # Pending

\* a canonicalizer call has returned a series
Returned == Finished /\ result.t = "series"

Ended(name) == op = name /\ result # Pending

ListOf(v) == IF IsArray(v) THEN v.elems ELSE <<>>

\* the points the called canonicalizer collects from its payload, in payload
\* order (none when the payload has no container)
RawPoints ==
  CASE op = "normalizeAirQuality" -> AirQualityCollect(ListOf(Get(args.rawData, "list")))
    [] op = "normalizeCrypto" -> CryptoCollect(ListOf(Get(args.rawData, "prices")))
    [] op = "normalizeWeather" ->
         WeatherCollect(ListOf(Get(Get(args.rawData, "hourly"), "time")),
                        ListOf(Get(Get(args.rawData, "hourly"), "temperature_2m")))
    [] op = "normalizeCurrency" -> CurrencyCollect(Get(args.rawData, "rates"))
    [] op = "createTimeSeries" ->
         GenericCollect(ListOf(args.data), args.valueKey, args.timestampKey)
    [] OTHER -> <<>>

\* a point whose timestamp and value are both finite numbers
ValidPoint(p) == IsFin(p.timestamp) /\ IsFin(p.originalValue)

ValidPoints == SeqFilter(ValidPoint, RawPoints)

\* what a point carries from the payload
Raw(p) == <<p.timestamp, p.originalValue>>

LastOf(s, n) == SubSeq(s, Len(s) - n + 1, Len(s))

\* the call asked for normalization (normalize: true)
NormalizeRequested ==
  IF op = "createTimeSeries"
  THEN Get(args.options, "normalize") = Bool(TRUE)
  ELSE Get(args.transformConfig, "normalize") = Bool(TRUE)

\* C1: in every series a canonicalizer returns, each point's timestamp is <=
\* the next point's timestamp.
C1_SortInvariant ==
  Returned =>
    \A i \in 1..(Len(result.dataPoints) - 1) :
      JSLessEq(result.dataPoints[i].timestamp, result.dataPoints[i + 1].timestamp)

\* C2: a payload with L valid points gives a series of exactly min(L, 100)
\* points, the last min(L, 100) of the valid points sorted by timestamp; and
\* limitDataPoints leaves an array no longer than the cap as it is.
C2_Limiter ==
  /\ Returned =>
       SeqMap(Raw, result.dataPoints)
         = SeqMap(Raw, LastOf(StableSort(ValidPoints),
                              MinInt(Len(ValidPoints), MaxDataPoints)))
  /\ (Ended("limitDataPoints") /\ Len(args.dataPoints) <= LimitArg(args.maxPoints))
       => held.dataPoints = args.dataPoints

\* C3: with normalize = true and metadata.max > metadata.min, every returned
\* point has value = (originalValue - min) / (max - min), which lies in 0..1,
\* and its originalValue is the value extracted from the payload.
C3_Normalization ==
  (Returned /\ NormalizeRequested /\ NumLess(result.metadata.min, result.metadata.max))
    => LET extracted == {Raw(RawPoints[j]) : j \in 1..Len(RawPoints)}
       IN  \A i \in 1..Len(result.dataPoints) :
             LET p == result.dataPoints[i]
             IN  /\ p.value
                      = NumDiv(NumSub(ToNumber(p.originalValue), result.metadata.min),
                               NumSub(result.metadata.max, result.metadata.min))
                 /\ NumLessEq(Zero, p.value)
                 /\ NumLessEq(p.value, One)
                 /\ Raw(p) \in extracted

C3_Witness ==
  /\ Returned
  /\ NormalizeRequested
  /\ NumLess(result.metadata.min, result.metadata.max)
  /\ \E i \in 1..Len(result.dataPoints) :
       result.dataPoints[i].value # result.dataPoints[i].originalValue

\* all the points of the returned series carry the same original value
SameValues ==
  \A i, j \in 1..Len(result.dataPoints) :
    result.dataPoints[i].originalValue = result.dataPoints[j].originalValue

\* C4: with normalize = true and all retained points of the same value, every
\* returned point has value = originalValue, and no value is NaN.
C4_ZeroRange ==
  (Returned /\ NormalizeRequested /\ Len(result.dataPoints) > 0 /\ SameValues)
    => \A i \in 1..Len(result.dataPoints) :
         /\ result.dataPoints[i].value = result.dataPoints[i].originalValue
         /\ ~IsNaN(result.dataPoints[i].value)

C4_Witness ==
  /\ Returned
  /\ NormalizeRequested
  /\ Len(result.dataPoints) >= 2
  /\ SameValues
  /\ result.dataPoints[1].timestamp # result.dataPoints[2].timestamp

OriginalValues(dataPoints) ==
  Materialize([i \in 1..Len(dataPoints) |-> dataPoints[i].originalValue])

\* C5: metadata.count is the number of points; when there are points, every
\* originalValue lies between metadata.min and metadata.max; min, max and mean
\* are those of the limited values before normalization.
C5_MetadataConsistency ==
  Returned =>
    /\ result.metadata.count = Len(result.dataPoints)
    /\ result.metadata.count > 0 =>
         \A i \in 1..Len(result.dataPoints) :
           /\ JSLessEq(result.metadata.min, result.dataPoints[i].originalValue)
           /\ JSLessEq(result.dataPoints[i].originalValue, result.metadata.max)
    /\ result.metadata
         = calculateMetadata(OriginalValues(result.dataPoints), result.metadata.unit)

\* the tolerance an aligner call works with
Tolerance == DefaultTo(args.toleranceMs, DefaultToleranceMs)

\* the positions of the series-1 points that have a series-2 point within the
\* tolerance
Matched ==
  {i \in 1..Len(args.series1.dataPoints) :
     \E j \in 1..Len(args.series2.dataPoints) :
       JSLessEq(TimeDiff(args.series1.dataPoints[i], args.series2.dataPoints[j]),
                Tolerance)}

\* the k-th smallest element of a set of integers
Nth(S, k) == CHOOSE i \in S : Cardinality({j \in S : j <= i}) = k

\* C6: the aligner emits one pair for each series-1 point that has a series-2
\* point within toleranceMs and none for the others, in series-1 order, each
\* pair with timeDiff = |t1 - t2| <= toleranceMs for a series-2 point; with an
\* empty series the pair list is empty and the series are passed through.
C6_Alignment ==
  Ended("alignTimeSeriesByTimestamp") =>
    /\ args.series1 # Null => result.series1 = args.series1
    /\ args.series2 # Null => result.series2 = args.series2
    /\ IF NoPoints(args.series1) \/ NoPoints(args.series2)
       THEN result.alignedPairs = <<>>
       ELSE /\ Len(result.alignedPairs) = Cardinality(Matched)
            /\ \A k \in 1..Len(result.alignedPairs) :
                 LET pair == result.alignedPairs[k]
                     point1 == args.series1.dataPoints[Nth(Matched, k)]
                 IN  /\ pair.timestamp = point1.timestamp
                     /\ pair.value1 = point1.value
                     /\ pair.originalValue1 = point1.originalValue
                     /\ JSLessEq(pair.timeDiff, Tolerance)
                     /\ \E j \in 1..Len(args.series2.dataPoints) :
                          LET point2 == args.series2.dataPoints[j]
                          IN  /\ pair.timeDiff = TimeDiff(point1, point2)
                              /\ pair.value2 = point2.value
                              /\ pair.originalValue2 = point2.originalValue

C6_Witness ==
  /\ Ended("alignTimeSeriesByTimestamp")
  /\ Len(result.alignedPairs) >= 1
  /\ Len(result.alignedPairs) < Len(args.series1.dataPoints)
  /\ \E k \in 1..Len(result.alignedPairs) : result.alignedPairs[k].timeDiff # Zero

\* C7: calculateCorrelation(A, B).coefficient = calculateCorrelation(B, A).coefficient
C7_CorrelationSymmetry ==
  Ended("calculateCorrelation") =>
    result.coefficient = calculateCorrelation(args.series2, args.series1).coefficient

\* C8: an entry whose timestamp or value is missing, mistyped or unparsable
\* gives no point (so every returned point is valid, none has a NaN
\* timestamp), and the valid entries are all there (up to the limit).
C8_SkipUnparsable ==
  Returned =>
    /\ \A i \in 1..Len(result.dataPoints) : ValidPoint(result.dataPoints[i])
    /\ Len(ValidPoints) <= MaxDataPoints =>
         \A j \in 1..Len(ValidPoints) :
           \E i \in 1..Len(result.dataPoints) :
             Raw(result.dataPoints[i]) = Raw(ValidPoints[j])

\* C9: no call raises an exception; a canonicalizer returns a series, the
\* aligner an alignment result.
C9_NoException ==
  /\ Finished => result.t = "series"
  /\ Ended("alignTimeSeriesByTimestamp") => result.t = "alignment"
  /\ result.t # "throw"

ZeroMetadata(metadata) ==
  /\ metadata.min = Zero
  /\ metadata.max = Zero
  /\ metadata.mean = Zero
  /\ metadata.count = 0

\* C10: when the payload has no container or every entry is skipped, the
\* canonicalizer returns a series with a source name, no points and metadata
\* min = max = mean = count = 0.
C10_EmptySeries ==
  (Finished /\ Len(RawPoints) = 0) =>
    /\ result.t = "series"
    /\ Truthy(result.sourceName)
    /\ result.dataPoints = <<>>
    /\ ZeroMetadata(result.metadata)

\* a series argument is null or undefined
Missing(series) == series.t \in {"null", "undefined"}

\* C11: analyzeData returns trends stable/stable, no spikes, the correlation
\* {0, none, none} and the summary "Insufficient data to generate insights."
\* exactly when one of its two series is null or undefined; for two series
\* that are not, the summary is never that text.
C11_InsufficientData ==
  Ended("analyzeData") =>
    /\ (Missing(args.series1) \/ Missing(args.series2))
         <=> /\ result.trends = [source1 |-> "stable", source2 |-> "stable"]
             /\ result.spikes = <<>>
             /\ result.correlation.coefficient = Zero
             /\ result.correlation.strength = "none"
             /\ result.correlation.direction = "none"
             /\ result.summary = "Insufficient data to generate insights."
    /\ (Missing(args.series1) \/ Missing(args.series2))
         <=> result.summary = "Insufficient data to generate insights."

C11_Witness ==
  /\ Ended("analyzeData")
  /\ Missing(args.series1)
  /\ ~Missing(args.series2)
  /\ ~NoPoints(args.series2)
  /\ result.summary = "Insufficient data to generate insights."

\* the values of the series handed to detectSpikes or detectTrends
GivenValues == Values(args.series.dataPoints)

\* the series handed over has points and all its values are finite numbers
NumericSeries ==
  /\ args.series.t = "series"
  /\ \A i \in 1..Len(args.series.dataPoints) : IsFin(args.series.dataPoints[i].value)

\* the mean and the population variance (divisor n) of finite values
MeanOf(values) == NumDiv(Sum(values), Num(Len(values)))

SquaredDeviation(value, mean) == NumMul(NumSub(value, mean), NumSub(value, mean))

PopulationVariance(values) ==
  NumDiv(Sum(Materialize([i \in 1..Len(values) |->
                            SquaredDeviation(values[i], MeanOf(values))])),
         Num(Len(values)))

\* |value - mean| / stdDev > threshold >= 0 with stdDev >= 0.0001, stated on
\* the squares
Outlier(values, i, threshold) ==
  /\ ~NumLess(NumMul(PopulationVariance(values), Fin(1, 1, 8)), One)
  /\ NumLess(NumMul(NumMul(threshold, threshold), PopulationVariance(values)),
             SquaredDeviation(values[i], MeanOf(values)))

StrictExtremum(values, i) ==
  \/ NumLess(values[i - 1], values[i]) /\ NumLess(values[i + 1], values[i])
  \/ NumLess(values[i], values[i - 1]) /\ NumLess(values[i], values[i + 1])

\* the indices the claim calls spikes
SpikeIndices(values, threshold) ==
  {i \in 2..(Len(values) - 1) : Outlier(values, i, threshold) /\ StrictExtremum(values, i)}

SpikeScenario == NumSeq(<<1, 1, 1, 10, 1, 1, 1>>)

FewerThanTwo ==
  args.series.t # "series" \/ Len(args.series.dataPoints) < 2

Constant(values) == \A i, j \in 1..Len(values) : values[i] = values[j]

StrictlyIncreasing(values) ==
  \A i \in 1..(Len(values) - 1) : NumLess(values[i], values[i + 1])

\* the mean of the positions 0 .. n-1
MeanIndex(n) == NumDiv(Num(n - 1), Num(2))

\* the least-squares slope of the values over their positions:
\* sum (x - mean x)(y - mean y) / sum (x - mean x)^2
LeastSquaresSlope(values) ==
  NumDiv(Sum(Materialize([i \in 1..Len(values) |->
                            NumMul(NumSub(Num(i - 1), MeanIndex(Len(values))),
                                   NumSub(values[i], MeanOf(values)))])),
         Sum(Materialize([i \in 1..Len(values) |->
                            NumMul(NumSub(Num(i - 1), MeanIndex(Len(values))),
                                   NumSub(Num(i - 1), MeanIndex(Len(values))))])))

\* the claim's condition for "increasing"
RisesAboveThreshold(values) ==
  /\ Len(values) >= 2
  /\ StrictlyIncreasing(values)
  /\ MeanOf(values) # Zero
  /\ NumLess(Fin(1, 1, -2), NumDiv(LeastSquaresSlope(values), MeanOf(values)))

\* the same series with other timestamps (reversed in sign and scaled)
Retimed(series) ==
  [series EXCEPT !.dataPoints =
     Materialize([i \in 1..Len(series.dataPoints) |->
        [series.dataPoints[i] EXCEPT !.timestamp = Num(-7 * i)]])]

\* C13: detectTrends returns "stable" for fewer than 2 points and for a
\* constant value sequence, "increasing" for a strictly increasing sequence
\* with a non-zero mean and slope / mean above 0.01; and the result does not
\* depend on the timestamps.
C13_Trends ==
  Ended("detectTrends") =>
    /\ FewerThanTwo => result = Str("stable")
    /\ (~FewerThanTwo /\ Constant(GivenValues)) => result = Str("stable")
    /\ (NumericSeries /\ RisesAboveThreshold(GivenValues)) => result = Str("increasing")
    /\ ~FewerThanTwo => result = Str(detectTrends(Retimed(args.series)))

C13_Witness ==
  /\ Ended("detectTrends")
  /\ NumericSeries
  /\ RisesAboveThreshold(GivenValues)
  /\ Len(GivenValues) = 2
  /\ result = Str("increasing")

\* C14: no operation changes what the caller handed over: after any call the
\* caller's payload, point arrays and series are as they were passed.
C14_NoMutation ==
  (op # "idle" /\ result # Pending) => held = args

\* the number of requests issued in the window of 60,000 ms that starts with
\* the i-th request
IssuedInWindow(i) ==
  Cardinality({j \in 1..Len(issued) :
                 issued[j] >= issued[i] /\ issued[j] < issued[i] + WindowMs})

\* C15: for a source with rateLimit.requestsPerMinute = N, at most N requests
\* are issued within any window of 60,000 ms, whatever the interleaving of
\* the calls, the failures and the retries.
C15_RateLimit ==
  sourceConfig.rateLimit # Null =>
    \A i \in 1..Len(issued) : IssuedInWindow(i) <= sourceConfig.rateLimit.requestsPerMinute

\* initialDelay * backoffMultiplier^k
RECURSIVE Backoff(_, _, _)
Backoff(initialDelay, backoffMultiplier, k) ==
  IF k = 0 THEN initialDelay
  ELSE backoffMultiplier * Backoff(initialDelay, backoffMultiplier, k - 1)

\* the retry parameters in force: those of the configuration, or 3, 1000, 2
RetryParameters ==
  IF sourceConfig.errorHandling = Null
  THEN [maxRetries |-> 3, retryDelay |-> 1000, backoffMultiplier |-> 2]
  ELSE sourceConfig.errorHandling

\* what C17 says of one call f: fn runs at most maxRetries + 1 times; the
\* k-th retry follows a failure by at least initialDelay * backoffMultiplier^(k-1);
\* a success ends the call at once; a rejection comes after the final attempt
\* or a client error that is not a rate limit error, with the last error; a
\* client error is never followed by another attempt.
RetriesAsDocumented(f) ==
  /\ Len(f.issuedAt) <= RetryParameters.maxRetries + 1
  /\ \A k \in 1..Len(f.waits) :
       f.waits[k] = Backoff(RetryParameters.retryDelay,
                            RetryParameters.backoffMultiplier, k - 1)
  /\ \A k \in 2..Len(f.issuedAt) :
       /\ k - 1 <= Len(f.waits)
       /\ f.issuedAt[k] >= f.failedAt[k - 1] + f.waits[k - 1]
  /\ \A k \in 1..Len(f.errors) :
       f.errors[k] \in {"", "ClientError"} => k = Len(f.issuedAt)
  /\ f.pc = "resolved" =>
       /\ Len(f.errors) = Len(f.issuedAt)
       /\ f.errors[Len(f.errors)] = ""
  /\ f.pc = "rejected" =>
       /\ Len(f.errors) = Len(f.issuedAt)
       /\ f.errors[Len(f.errors)] # ""
       /\ \/ Len(f.issuedAt) = RetryParameters.maxRetries + 1
          \/ f.errors[Len(f.errors)] = "ClientError"
  /\ (f.pc \in {"resolved", "rejected"} /\ f.errors[1] = "ClientError") =>
       Len(f.issuedAt) = 1

FirstNearest(point1, points2) ==
  CHOOSE j \in 1..Len(points2) :
    /\ \A k \in 1..Len(points2) :
         ~NumLess(TimeDiff(point1, points2[k]), TimeDiff(point1, points2[j]))
    /\ \A k \in 1..(j - 1) :
         NumLess(TimeDiff(point1, points2[j]), TimeDiff(point1, points2[k]))

\* C19: each pair of the aligner holds the series-2 point at the least
\* |t1 - t2| over all series-2 points, and of several such points the one that
\* comes first in the stored order of series 2.
C19_NearestFirst ==
  (Ended("alignTimeSeriesByTimestamp")
     /\ ~NoPoints(args.series1) /\ ~NoPoints(args.series2)) =>
    /\ Len(result.alignedPairs) = Cardinality(Matched)
    /\ \A k \in 1..Len(result.alignedPairs) :
         LET pair == result.alignedPairs[k]
             point1 == args.series1.dataPoints[Nth(Matched, k)]
             point2 == args.series2.dataPoints[
                         FirstNearest(point1, args.series2.dataPoints)]
         IN  /\ pair.timeDiff = TimeDiff(point1, point2)
             /\ pair.value2 = point2.value
             /\ pair.originalValue2 = point2.originalValue

\* the scenario: a point at 0, series 2 stored as 3,700,000 then 3,500,000 with
\* different values, tolerance 3,600,000: paired with the 3,500,000 point
C19_Witness ==
  /\ Ended("alignTimeSeriesByTimestamp")
  /\ args.toleranceMs = Num(3600000)
  /\ ~NoPoints(args.series1) /\ ~NoPoints(args.series2)
  /\ args.series1.dataPoints[1].timestamp = Zero
  /\ Len(args.series2.dataPoints) = 2
  /\ args.series2.dataPoints[1].timestamp = Num(3700000)
  /\ args.series2.dataPoints[2].timestamp = Num(3500000)
  /\ args.series2.dataPoints[1].value # args.series2.dataPoints[2].value
  /\ Len(result.alignedPairs) = 1
  /\ result.alignedPairs[1].timeDiff = Num(3500000)
  /\ result.alignedPairs[1].value2 = args.series2.dataPoints[2].value

OneHourMs == Num(3600000)

\* the positions of the series-1 points with a series-2 point within one hour
WithinOneHour ==
  {i \in 1..Len(args.series1.dataPoints) :
     \E j \in 1..Len(args.series2.dataPoints) :
       JSLessEq(TimeDiff(args.series1.dataPoints[i], args.series2.dataPoints[j]),
                OneHourMs)}

\* the aligned values: of series 1, and of the series-2 points paired with them
AlignedValues1 == {args.series1.dataPoints[i].value : i \in WithinOneHour}

AlignedValues2 ==
  {args.series2.dataPoints[
      FirstNearest(args.series1.dataPoints[i], args.series2.dataPoints)].value :
     i \in WithinOneHour}

\* C20: calculateCorrelation returns coefficient 0, strength none, direction
\* none when a series is empty or fewer than 2 pairs are aligned; coefficient 0
\* when the aligned values of a series are all equal; the coefficient is never
\* NaN and lies in [-1, 1].
C20_CorrelationBounds ==
  Ended("calculateCorrelation") =>
    /\ result.t = "correlation"
    /\ ~IsNaN(result.coefficient)
    /\ NumLessEq(Num(-1), result.coefficient)
    /\ NumLessEq(result.coefficient, Num(1))
    /\ IF NoPoints(args.series1) \/ NoPoints(args.series2)
       THEN result = NoCorrelation
       ELSE /\ Cardinality(WithinOneHour) < 2 => result = NoCorrelation
            /\ (Cardinality(AlignedValues1) = 1 \/ Cardinality(AlignedValues2) = 1) =>
                 result.coefficient = Zero

\* the same on series whose aligned values are all finite numbers
AllFinite(values) == \A v \in values : IsFin(v)

C20_FiniteValues ==
  (Ended("calculateCorrelation")
     /\ (~NoPoints(args.series1) /\ ~NoPoints(args.series2)) =>
          (AllFinite(AlignedValues1) /\ AllFinite(AlignedValues2))) =>
    C20_CorrelationBounds

\* the configuration has exactly two data sources, each with an endpoint, a
\* method and transformation instructions, and a valid strategy where it has
\* a rate limit
TwoCompleteSources(loaded) ==
  /\ Truthy(loaded)
  /\ Get(loaded, "dataSources").t = "dict"
  /\ LET entries == Get(loaded, "dataSources").entries
     IN  /\ Len(entries) = 2
         /\ \A i \in 1..Len(entries) :
              /\ Truthy(Get(entries[i][2], "endpoint"))
              /\ Truthy(Get(entries[i][2], "method"))
              /\ Truthy(Get(entries[i][2], "transformation"))
              /\ Truthy(Get(entries[i][2], "rateLimit")) =>
                   Get(Get(entries[i][2], "rateLimit"), "strategy") \in
                     {Str("throttle"), Str("queue")}

\* the last call ran validateConfig and it did not throw
Validated ==
  /\ answer.call \in {"loadConfig", "validateConfig"}
  /\ answer.value.t # "throw"

\* C18: validateConfig accepts a configuration only if it has exactly two
\* data sources, each with endpoint, method and transformation (and a valid
\* strategy where a rateLimit is present); any other is rejected with an error.
C18_ExactlyTwoSources == Validated => TwoCompleteSources(config)

\* C16: at most one refreshData run is in flight, and a handleRefresh or
\* handleTimeRangeChange that runs while isLoading is true starts no fetch and
\* leaves currentTimeRange as it is.
C16_SingleRefresh ==
  /\ [](Len(refreshes) <= 1)
  /\ [][(Len(events') > Len(events) /\ isLoading) =>
          (refreshes' = refreshes /\ currentTimeRange' = currentTimeRange)]_vars

\* a click was ignored during the refresh of initialize, and a change to
\* another time range during the refresh of a later click
C16_Witness ==
  /\ \E k \in 1..Len(events) :
       /\ events[k].whileLoading
       /\ events[k].during = "initialize"
  /\ \E k \in 1..Len(events) :
       /\ events[k].whileLoading
       /\ events[k].during = "handleRefresh"
       /\ events[k].handler = "handleTimeRangeChange"
       /\ events[k].range # currentTimeRange
  /\ Len(refreshes) = 1

\* the aligned values in series-1 order
AlignedSeq1 ==
  Materialize([k \in 1..Cardinality(WithinOneHour) |->
                 args.series1.dataPoints[Nth(WithinOneHour, k)].value])

AlignedSeq2 ==
  Materialize([k \in 1..Cardinality(WithinOneHour) |->
                 args.series2.dataPoints[
                   FirstNearest(args.series1.dataPoints[Nth(WithinOneHour, k)],
                                args.series2.dataPoints)].value])

\* the sum of (xs[i] - mean(xs)) * (ys[i] - mean(ys)) for finite values
CoDeviation(xs, ys) ==
  Sum(Materialize([i \in 1..Len(xs) |->
                     NumMul(NumSub(xs[i], MeanOf(xs)), NumSub(ys[i], MeanOf(ys)))]))

\* Pearson's r is defined: both series have points, two pairs or more are
\* aligned, their values are finite numbers and neither side is constant
PearsonDefined ==
  /\ ~NoPoints(args.series1) /\ ~NoPoints(args.series2)
  /\ Cardinality(WithinOneHour) >= 2
  /\ AllFinite(AlignedValues1) /\ AllFinite(AlignedValues2)
  /\ Cardinality(AlignedValues1) > 1 /\ Cardinality(AlignedValues2) > 1

\* r^2 compared with q^2, r being the Pearson coefficient of xs and ys: the
\* sign of cov^2 - q^2 * ss(xs) * ss(ys)
RSquareCmp(xs, ys, q) ==
  NumCmp(NumMul(CoDeviation(xs, ys), CoDeviation(xs, ys)),
         NumMul(NumMul(q, q), NumMul(CoDeviation(xs, xs), CoDeviation(ys, ys))))

\* |r| >= q
AbsAtLeast(xs, ys, q) == RSquareCmp(xs, ys, q) >= 0

\* r > q for q > 0, r < -q for the opposite sign
Beyond(xs, ys, q, sign) ==
  Sign(CoDeviation(xs, ys)) = sign /\ RSquareCmp(xs, ys, q) > 0

Tenths(k) == NumDiv(Num(k), Num(10))

StrengthOfR(xs, ys) ==
  IF AbsAtLeast(xs, ys, Tenths(7)) THEN "strong"
  ELSE IF AbsAtLeast(xs, ys, Tenths(4)) THEN "moderate"
  ELSE IF AbsAtLeast(xs, ys, Tenths(1)) THEN "weak"
  ELSE "none"

DirectionOfR(xs, ys) ==
  IF Beyond(xs, ys, Tenths(1), 1) THEN "positive"
  ELSE IF Beyond(xs, ys, Tenths(1), -1) THEN "negative"
  ELSE "none"

\* C21: for the Pearson r of the aligned values, strength is strong iff
\* |r| >= 0.7, moderate iff 0.4 <= |r| < 0.7, weak iff 0.1 <= |r| < 0.4, none
\* otherwise; direction is positive iff r > 0.1, negative iff r < -0.1, none
\* otherwise; |r| = 0.1 gives weak with direction none.
C21_StrengthBands ==
  (Ended("calculateCorrelation") /\ PearsonDefined) =>
    /\ result.strength = StrengthOfR(AlignedSeq1, AlignedSeq2)
    /\ result.direction = DirectionOfR(AlignedSeq1, AlignedSeq2)

\* r is exactly 0.1 or -0.1: weak, direction none
C21_Witness ==
  /\ Ended("calculateCorrelation")
  /\ PearsonDefined
  /\ RSquareCmp(AlignedSeq1, AlignedSeq2, Tenths(1)) = 0
  /\ result.strength = "weak"
  /\ result.direction = "none"

\* |coefficient| >= q for the coefficient returned
ReturnedAtLeast(q) ==
  /\ IsFin(result.coefficient)
  /\ NumLessEq(q, NumAbs(result.coefficient))

\* C26: the strength and direction returned agree with the coefficient
\* returned (rounded to 3 decimals): strong iff |coefficient| >= 0.7, moderate
\* iff 0.4 <= |coefficient| < 0.7, weak iff 0.1 <= |coefficient| < 0.4, none
\* otherwise; positive iff coefficient > 0.1, negative iff coefficient < -0.1.
C26_ConsistentWithCoefficient ==
  Ended("calculateCorrelation") =>
    /\ result.strength =
         (IF ReturnedAtLeast(Tenths(7)) THEN "strong"
          ELSE IF ReturnedAtLeast(Tenths(4)) THEN "moderate"
          ELSE IF ReturnedAtLeast(Tenths(1)) THEN "weak"
          ELSE "none")
    /\ result.direction = "positive" <=> NumLess(Tenths(1), result.coefficient)
    /\ result.direction = "negative" <=> NumLess(result.coefficient, Tenths(-1))
\* both series handed to analyzeData are there (neither null nor undefined)
TwoSeries == ~Missing(args.series1) /\ ~Missing(args.series2)

\* the correlation sentence as documented, filled in from the correlation
\* object returned
DocumentedCorrelationSentence(correlation) ==
  IF correlation.strength = "none"
  THEN "No significant correlation was found between "
         \o NameOf(args.series1, "First dataset") \o " and "
         \o NameOf(args.series2, "Second dataset") \o "."
  ELSE "A " \o correlation.strength \o " " \o correlation.direction
         \o " correlation (r=" \o Text(correlation.coefficient) \o ") exists between "
         \o NameOf(args.series1, "First dataset") \o " and "
         \o NameOf(args.series2, "Second dataset") \o "."

\* the summary ends with the sentence given: it is the sentences before it
\* (trend and spike, as returned) followed by that sentence
EndsWith(sentence) ==
  \E host \in Hosts :
    result.summary = JoinInsights(generateTrendInsight(args.series1, args.series2,
                                                       result.trends),
                                  generateSpikeInsight(result.spikes, host),
                                  sentence)

\* C22: for two series that are not null, the last sentence of the summary is
\* "A {strength} {direction} correlation (r={coefficient}) exists between
\* {name1} and {name2}." with the strength, direction and coefficient of the
\* correlation returned when the strength is not none, and the "No significant
\* correlation" sentence when it is none.
C22_CorrelationSentence ==
  (Ended("analyzeData") /\ TwoSeries) =>
    EndsWith(DocumentedCorrelationSentence(result.correlation))

\* the trend sentence as documented: the combined sentence when both trends
\* are stable, otherwise the series that are not stable joined by ", while "
DocumentedTrendSentence(name1, name2, trends) ==
  IF trends.source1 = "stable" /\ trends.source2 = "stable"
  THEN "Both " \o name1 \o " and " \o name2
         \o " show stable patterns over the observed period."
  ELSE IF trends.source2 = "stable" THEN name1 \o " is " \o trends.source1 \o "."
  ELSE IF trends.source1 = "stable" THEN name2 \o " is " \o trends.source2 \o "."
  ELSE name1 \o " is " \o trends.source1 \o ", while "
         \o name2 \o " is " \o trends.source2 \o "."

\* the index in spikes of the spike with the largest |percentChange|, the
\* first one on ties
MostSignificant(spikes) ==
  CHOOSE i \in 1..Len(spikes) :
    /\ \A j \in 1..Len(spikes) :
         NumLessEq(NumAbs(spikes[j].percentChange), NumAbs(spikes[i].percentChange))
    /\ \A j \in 1..(i - 1) :
         ~NumLessEq(NumAbs(spikes[i].percentChange), NumAbs(spikes[j].percentChange))

\* the sentences of the summary as documented, in their order
DocumentedSentences(host) ==
  <<DocumentedTrendSentence(NameOf(args.series1, "First dataset"),
                            NameOf(args.series2, "Second dataset"), result.trends)>>
    \o (IF Len(result.spikes) = 0 THEN <<>>
        ELSE <<SpikeInsightOf(Len(result.spikes),
                              result.spikes[MostSignificant(result.spikes)], host)>>)
    \o <<generateCorrelationInsight(args.series1, args.series2, result.correlation)>>

SpaceJoined(sentences) ==
  IF Len(sentences) = 2 THEN sentences[1] \o " " \o sentences[2]
  ELSE sentences[1] \o " " \o sentences[2] \o " " \o sentences[3]

\* the spikes returned are those of series 1 followed by those of series 2
SpikesInSeriesOrder ==
  result.spikes = detectSpikes(args.series1, args.engine.spikeThreshold)
                    \o detectSpikes(args.series2, args.engine.spikeThreshold)

\* C23: for two series that are not null the summary is never empty and is
\* the space-joined sequence of the trend sentence (the combined "Both ...
\* stable" sentence iff both trends are stable, otherwise the series that are
\* not stable joined by ", while "), the spike sentence (there iff a spike was
\* detected, about the spike with the largest |percentChange| among the
\* spikes of series 1 followed by those of series 2, the first one on ties)
\* and the correlation sentence (always there).
C23_SummaryComposition ==
  (Ended("analyzeData") /\ TwoSeries) =>
    /\ result.summary # ""
    /\ SpikesInSeriesOrder
    /\ \E host \in Hosts : result.summary = SpaceJoined(DocumentedSentences(host))

\* both series have a spike of the same |percentChange|, and the summary is
\* about the spike of series 1
C23_Witness ==
  /\ Ended("analyzeData")
  /\ TwoSeries
  /\ Len(result.spikes) = 2
  /\ result.spikes[1].source = Str("A")
  /\ result.spikes[2].source = Str("B")
  /\ NumAbs(result.spikes[1].percentChange) = NumAbs(result.spikes[2].percentChange)
  /\ result.trends.source1 = "stable"
  /\ result.trends.source2 = "stable"
  /\ \E host \in Hosts :
       result.summary = SpaceJoined(<<DocumentedTrendSentence("A", "B", result.trends),
                                      SpikeInsightOf(2, result.spikes[1], host),
                                      generateCorrelationInsight(args.series1, args.series2,
                                                                 result.correlation)>>)

\* the timestamps createTimeSeries extracts from the items it keeps, by the
\* index of the item in data
ExtractedTimestamps ==
  [i \in {j \in 1..Len(ListOf(args.data)) :
            GenericKeep(ListOf(args.data)[j], args.valueKey, args.timestampKey)}
     |-> extractValue(ListOf(args.data)[i], args.timestampKey)]

\* t * 1000 for a number t < 10,000,000,000, t itself for a number
\* t >= 10,000,000,000 (and for what is not a number)
DocumentedMs(t) ==
  IF IsFin(t) /\ CmpFin(t, Fin(1, 1, 10)) < 0 THEN NumMul(t, Num(1000))
  ELSE t

\* the timestamps returned are the documented conversions of the extracted
\* ones, each as often as it was extracted
ConvertedAsDocumented ==
  /\ Len(result.dataPoints) = Cardinality(DOMAIN ExtractedTimestamps)
  /\ \A i \in DOMAIN ExtractedTimestamps :
       Cardinality({k \in 1..Len(result.dataPoints) :
                      result.dataPoints[k].timestamp = DocumentedMs(ExtractedTimestamps[i])})
         = Cardinality({j \in DOMAIN ExtractedTimestamps :
                          DocumentedMs(ExtractedTimestamps[j])
                            = DocumentedMs(ExtractedTimestamps[i])})

\* C24: createTimeSeries stores a numeric extracted timestamp t as t * 1000
\* when t < 10,000,000,000 and unchanged when t >= 10,000,000,000, for every
\* numeric t (0, negative values and 10,000,000,000 itself included).
C24_TimestampConversion ==
  (Ended("createTimeSeries") /\ result.t = "series") => ConvertedAsDocumented

\* the bound itself and a timestamp just below it were extracted, in this
\* order; the converted timestamps come back the other way round
C24_Witness ==
  /\ Ended("createTimeSeries")
  /\ result.t = "series"
  /\ Len(result.dataPoints) = 2
  /\ DOMAIN ExtractedTimestamps = {1, 2}
  /\ ExtractedTimestamps[1] = Fin(1, 1, 10)
  /\ ExtractedTimestamps[2] = Fin(99, 1, 8)
  /\ result.dataPoints[1].timestamp = Fin(1, 1, 10)
  /\ result.dataPoints[2].timestamp = Fin(99, 1, 11)

\* the entries of the payload handed to the called canonicalizer, each as
\* <<timestamp, value>>: the timestamp as the payload carries it (a date text
\* read as the time it names), undefined for what an entry does not carry
RawEntries ==
  CASE op = "normalizeAirQuality" ->
         LET list == ListOf(Get(args.rawData, "list"))
         IN  [i \in 1..Len(list) |->
                <<Get(list[i], "dt"), Get(Get(list[i], "main"), "aqi")>>]
    [] op = "normalizeCrypto" ->
         LET prices == ListOf(Get(args.rawData, "prices"))
         IN  [i \in 1..Len(prices) |->
                IF IsArray(prices[i]) THEN <<At(prices[i], 0), At(prices[i], 1)>>
                ELSE <<Undefined, Undefined>>]
    [] op = "normalizeWeather" ->
         LET times == ListOf(Get(Get(args.rawData, "hourly"), "time"))
             temperatures == ListOf(Get(Get(args.rawData, "hourly"), "temperature_2m"))
         IN  [i \in 1..MinInt(Len(times), Len(temperatures)) |->
                <<IF times[i].t = "string" THEN DateParse(times[i].s) ELSE Undefined,
                  temperatures[i]>>]
    [] op = "normalizeCurrency" ->
         LET entries == ObjectEntries(Get(args.rawData, "rates"))
         IN  [i \in 1..Len(entries) |->
                <<DateParse(NoonOf(entries[i][1])), Get(entries[i][2], "USD")>>]
    [] op = "createTimeSeries" ->
         LET data == ListOf(args.data)
         IN  [i \in 1..Len(data) |->
                <<extractValue(data[i], args.timestampKey),
                  extractValue(data[i], args.valueKey)>>]
    [] OTHER -> <<>>

\* an entry with a finite number for its timestamp and for its value
WellFormed(entry) == IsFin(entry[1]) /\ IsFin(entry[2])

WellFormedEntries == {i \in DOMAIN RawEntries : WellFormed(RawEntries[i])}

\* C25: a canonicalizer skips only offending entries: every raw entry with a
\* valid numeric timestamp and a valid numeric value (a timestamp of 0 or a
\* value of 0 included) yields a dataPoint, so the returned series has exactly
\* min(100, number of well-formed entries) points.
C25_OnlyOffendingSkipped ==
  Returned =>
    /\ Len(result.dataPoints) = MinInt(MaxDataPoints, Cardinality(WellFormedEntries))
    /\ Cardinality(WellFormedEntries) <= MaxDataPoints =>
         \A i \in WellFormedEntries :
           \E k \in 1..Len(result.dataPoints) :
             result.dataPoints[k].originalValue = RawEntries[i][2]

\* C27: detectTrends is sign-consistent with the fitted line: it never returns
\* "increasing" for a series whose least-squares slope over the index is
\* negative and never "decreasing" for one whose slope is positive, series
\* with negative values (and mean) included.
C27_SignConsistent ==
  (Ended("detectTrends") /\ ~FewerThanTwo /\ NumericSeries) =>
    /\ NumLess(LeastSquaresSlope(GivenValues), Zero) => result # Str("increasing")
    /\ NumLess(Zero, LeastSquaresSlope(GivenValues)) => result # Str("decreasing")

\* the position in the series of the point a spike was detected at
SpikePosition(series, spike) ==
  CHOOSE i \in 1..Len(series.dataPoints) :
    series.dataPoints[i].timestamp = spike.timestamp

\* the point at position i is above (below) both its neighbours
StrictLocalMax(series, i) ==
  /\ JSLess(series.dataPoints[i - 1].value, series.dataPoints[i].value)
  /\ JSLess(series.dataPoints[i + 1].value, series.dataPoints[i].value)

StrictLocalMin(series, i) ==
  /\ JSLess(series.dataPoints[i].value, series.dataPoints[i - 1].value)
  /\ JSLess(series.dataPoints[i].value, series.dataPoints[i + 1].value)

\* the sign of the spike's percentChange is that of its extremum
SignedAsExtremum(series, spike) ==
  /\ StrictLocalMax(series, SpikePosition(series, spike))
       => NumLess(Zero, spike.percentChange)
  /\ StrictLocalMin(series, SpikePosition(series, spike))
       => NumLess(spike.percentChange, Zero)

\* the series the k-th spike of an analysis was detected in
SeriesOfSpike(k) ==
  IF k <= Len(detectSpikes(args.series1, args.engine.spikeThreshold))
  THEN args.series1 ELSE args.series2

\* the summary words the spike it describes with the word given
WordedAs(word) ==
  \E host \in Hosts :
    result.summary =
      JoinInsights(generateTrendInsight(args.series1, args.series2, result.trends),
                   SpikeSentence(Len(result.spikes),
                                 result.spikes[MostSignificant(result.spikes)], word,
                                 Text(NumAbs(result.spikes[MostSignificant(result.spikes)]
                                               .percentChange)),
                                 toLocaleDateString(
                                   result.spikes[MostSignificant(result.spikes)].timestamp,
                                   host)),
                   generateCorrelationInsight(args.series1, args.series2,
                                              result.correlation))

\* the spike the summary describes is worded by its extremum
WordedAsExtremum ==
  LET k == MostSignificant(result.spikes)
      series == SeriesOfSpike(k)
      i == SpikePosition(series, result.spikes[k])
  IN  /\ StrictLocalMax(series, i) => WordedAs("spike")
      /\ StrictLocalMin(series, i) => WordedAs("drop")

\* C28: every detected spike that is a strict local maximum has
\* percentChange > 0 and is worded "spike" in the summary, and every one that
\* is a strict local minimum has percentChange < 0 and is worded "drop", also
\* when the value of the preceding point is 0.
C28_SpikeWording ==
  /\ Ended("detectSpikes") =>
       \A k \in 1..Len(result.elems) : SignedAsExtremum(args.series, result.elems[k])
  /\ (Ended("analyzeData") /\ TwoSeries /\ Len(result.spikes) > 0) =>
       /\ \A k \in 1..Len(result.spikes) :
            SignedAsExtremum(SeriesOfSpike(k), result.spikes[k])
       /\ WordedAsExtremum

\* the value is null or a configuration validateConfig accepts
NullOrValid(loaded) == loaded = Null \/ validateConfig(loaded) = ""

\* a loadConfig call ends with a throw
LoadFails ==
  /\ loading # "idle"
  /\ loading' = "idle"
  /\ answer'.value.t = "throw"

\* C29: in every reachable state of an MCPConfigParser, config is null or a
\* configuration that passed validateConfig: a loadConfig call that fails
\* (fetch error, invalid JSON or validation error) leaves config as it was, so
\* getConfig returns null, and getDataSource and getDataSourceNames throw
\* "Configuration not loaded", until a loadConfig has succeeded.
C29_ConfigNullOrValid ==
  /\ [](NullOrValid(config))
  /\ [](answer.call = "getConfig" => NullOrValid(answer.value))
  /\ [][LoadFails => config' = config]_vars

\* C30: every run of initialize, handleRefresh or handleTimeRangeChange that
\* sets isLoading to true eventually sets it back to false, whether refreshData
\* succeeds or throws (every fetch and retry delay settling), so the dashboard
\* never stays locked against further refreshes.
C30_LoadingEnds == isLoading ~> ~isLoading

\* the refreshData of initialize threw, and a change of the time range made
\* after it was answered and has been served: nothing is loading
C30_Witness ==
  /\ phase = "refreshFailed"
  /\ ~isLoading
  /\ refreshes = <<>>
  /\ \E k \in 1..Len(events) :
       /\ ~events[k].whileLoading
       /\ events[k].handler = "handleTimeRangeChange"
       /\ events[k].range = currentTimeRange
       /\ currentTimeRange # "24h"

====
